---- MODULE Spec2Model ----
(***************************************************************************)
(* Verification model of the grocery-deal-finder classification core:      *)
(*   - createShards (utils/chunking)                                       *)
(*   - the Sharding Orchestrator and Pipeline Coordinator (geminiService)  *)
(*   - the Classifier Client and the classifier worker (vectorClassifier,  *)
(*     classifier.worker)                                                  *)
(* Three specifications share the module: SpecShards, Spec (pipeline) and  *)
(* SpecClient.  Each one leaves the variables of the other parts fixed.    *)
(***************************************************************************)
EXTENDS Integers, Sequences, FiniteSets, TLC

\* ------------------------------------------------------------------------
\* Bounds of the model
\* ------------------------------------------------------------------------
MaxItems == 4
MaxShardSize == 3
NumWorlds == 2
MaxExtract == 2
MaxMatches == 2
MaxInstances == 2
MaxCalls == 2
MaxBatch == 2
MaxInv == 2
MaxDim == 2
MaxAnchors == 3

\* ------------------------------------------------------------------------
\* Program constants
\* ------------------------------------------------------------------------
SHARD_SIZE == 20

\* ------------------------------------------------------------------------
\* State
\* ------------------------------------------------------------------------
\* createShards: its arguments, loop index, result and position.
VARIABLES shItems, shSize, shI, shShards, shPc
\* The embedding function the embedding-model oracle computes in this run.
VARIABLES world
\* analyzeGroceryAds and the agents it runs.
VARIABLES pPc, pErr, ret, extPc, libPc, shards, shardPc, shardItems,
          shardRet, shardErr, mapAll, settleOrder, oracleLog, classifyLog,
          result
\* The Classifier Client (singleton, instances, requests, callers) and the
\* classifier workers (state, running handlers, message channels).
VARIABLES classifierInstance, nInst, inst, reqs, calls, terminations,
          wk, tasks, toWorker, toClient

varsShards == <<shItems, shSize, shI, shShards, shPc>>
varsPipe == <<pPc, pErr, ret, extPc, libPc, shards, shardPc, shardItems,
              shardRet, shardErr, mapAll, settleOrder, oracleLog,
              classifyLog, result>>
varsClient == <<classifierInstance, nInst, inst, reqs, calls, terminations,
                wk, tasks, toWorker, toClient>>
\* One call of a pure routine: its position, arguments and outcome.
VARIABLES fnPc, fnIn, fnOut
varsFn == <<fnPc, fnIn, fnOut>>
vars == <<varsShards, world, varsPipe, varsClient, varsFn>>

\* What an action of one part leaves alone.
ShardsFrame == UNCHANGED <<world, varsPipe, varsClient, varsFn>>
PipeFrame == UNCHANGED <<world, varsShards, varsClient, varsFn>>
ClientFrame == UNCHANGED <<world, varsShards, varsPipe, varsFn>>
FnFrame == UNCHANGED <<world, varsShards, varsPipe, varsClient>>

Min(a, b) == IF a < b THEN a ELSE b
Max(a, b) == IF a > b THEN a ELSE b

None == [none |-> TRUE]

\* ========================================================================
\* createShards (utils/chunking)
\* ========================================================================
\* Array.prototype.slice(start, end) on a 0-based array, as a 1-based
\* sequence: negative indices count from the end, both are clamped.
JsSlice(items, start, end) ==
    LET len == Len(items)
        s == IF start < 0 THEN Max(len + start, 0) ELSE Min(start, len)
        e == IF end < 0 THEN Max(len + end, 0) ELSE Min(end, len)
    IN  IF s >= e THEN << >> ELSE SubSeq(items, s + 1, e)

\* Mutant of ShardBody: the slice stops one element short.
ShardBodyShort(items, shardSize, i) == JsSlice(items, i, i + shardSize - 1)

\* Body of the for loop: the shard pushed at index i.
ShardBody(items, shardSize, i) == JsSlice(items, i, i + shardSize)

\* for (let i = 0; i < items.length; i += shardSize), run to completion.
\* Defined for shardSize > 0 only (the loop does not end otherwise).
RECURSIVE ShardLoop(_, _, _, _)
ShardLoop(items, shardSize, i, acc) ==
    IF i < Len(items)
    THEN ShardLoop(items, shardSize, i + shardSize,
                   Append(acc, ShardBody(items, shardSize, i)))
    ELSE acc

createShards(items, shardSize) == ShardLoop(items, shardSize, 0, << >>)

\* Inputs of the createShards runs: every list over ItemVals up to MaxItems,
\* and the list i1..i47 of the documented scenario.
ItemVals == 1..2
ScenarioLen == 2 * SHARD_SIZE + 7
ScenarioItems == [i \in 1..ScenarioLen |-> i]
SeqsUpTo(S, n) == UNION {[1..k -> S] : k \in 0..n}
ShardInputs == SeqsUpTo(ItemVals, MaxItems) \cup {ScenarioItems}
IdleShards ==
    /\ shItems = << >>
    /\ shSize = 1
    /\ shI = 0
    /\ shShards = << >>
    /\ shPc = "idle"

ShardSizes == (-1..MaxShardSize) \cup {SHARD_SIZE}
\* Cap on the loop iterations followed in the runs whose index never
\* advances (shardSize <= 0).
MaxIter == MaxItems + 2

InitShards ==
    /\ shItems \in ShardInputs
    /\ shSize \in ShardSizes
    /\ shI = 0
    /\ shShards = << >>
    /\ shPc = "loop"

\* One iteration of the loop.
ShardStep ==
    /\ shPc = "loop"
    /\ shI < Len(shItems)
    /\ shSize > 0 \/ Len(shShards) < MaxIter
    /\ shShards' = Append(shShards, ShardBody(shItems, shSize, shI))
    /\ shI' = shI + shSize
    /\ UNCHANGED <<shItems, shSize, shPc>>
    /\ ShardsFrame

\* Loop exit and return.
ShardReturn ==
    /\ shPc = "loop"
    /\ ~(shI < Len(shItems))
    /\ shPc' = "done"
    /\ UNCHANGED <<shItems, shSize, shI, shShards>>
    /\ ShardsFrame

NextShards == ShardStep \/ ShardReturn


RECURSIVE Flat(_)
Flat(ss) == IF ss = << >> THEN << >> ELSE Head(ss) \o Flat(Tail(ss))

CeilDiv(a, b) == (a + b - 1) \div b

\* C1: for non-empty items and shardSize n > 0 the returned shards
\* concatenate to items, all but the last have length n, and there are
\* ceil(len/n) of them.
C1_ShardsPartition ==
    (shPc = "done" /\ shItems # << >> /\ shSize > 0) =>
        /\ Flat(shShards) = shItems
        /\ \A k \in 1..(Len(shShards) - 1) : Len(shShards[k]) = shSize
        /\ Len(shShards) = CeilDiv(Len(shItems), shSize)
        /\ Len(shShards[Len(shShards)]) \in 1..shSize

\* Witness of C1: the 47-item scenario has returned sizes 20, 20, 7.
C1_Witness ==
    /\ shPc = "done"
    /\ shItems = ScenarioItems
    /\ shSize = SHARD_SIZE
    /\ [k \in 1..Len(shShards) |-> Len(shShards[k])] = <<20, 20, 7>>

\* ========================================================================
\* Taxonomy Table (services/taxonomy)
\* ========================================================================
PARENT_CATEGORIES ==
    << "Produce", "Meat & Seafood", "Deli & Bakery", "Dairy & Eggs",
       "Pantry & Dry Goods", "Snacks & Sweets", "Beverages", "Frozen Foods",
       "Household & Cleaning", "Personal Care & Health" >>

\* The tree in key order (Object.entries enumerates keys in insertion order).
TAXONOMY_TREE ==
    << [parent |-> "Produce",
        subs |-> <<"Fresh Fruit", "Fresh Vegetables", "Herbs & Aromatics">>],
       [parent |-> "Meat & Seafood",
        subs |-> <<"Poultry", "Beef & Pork", "Seafood", "Plant-Based Meat">>],
       [parent |-> "Deli & Bakery",
        subs |-> <<"Deli Meat & Cheese", "Fresh Bakery", "Prepared Meals">>],
       [parent |-> "Dairy & Eggs",
        subs |-> <<"Milk & Cream", "Cheese", "Eggs & Butter", "Yogurt">>],
       [parent |-> "Pantry & Dry Goods",
        subs |-> <<"Pasta, Rice & Grains", "Canned & Jarred", "Baking & Spices",
                   "Breakfast & Cereal", "Condiments">>],
       [parent |-> "Snacks & Sweets",
        subs |-> <<"Salty Snacks", "Sweet Snacks", "Nuts & Dried Fruit">>],
       [parent |-> "Beverages",
        subs |-> <<"Water & Seltzer", "Soda & Soft Drinks", "Coffee & Tea",
                   "Alcohol">>],
       [parent |-> "Frozen Foods",
        subs |-> <<"Frozen Meals & Pizza", "Frozen Veggies & Fruit",
                   "Ice Cream & Desserts">>],
       [parent |-> "Household & Cleaning",
        subs |-> <<"Paper Products", "Cleaning Supplies", "Pet Care">>],
       [parent |-> "Personal Care & Health",
        subs |-> <<"Toiletries", "Pharmacy", "Baby">>] >>

\* The subcategories of one tree entry, each with its parent.
SubsOf(entry) ==
    [j \in 1..Len(entry.subs) |-> [name |-> entry.subs[j], parent |-> entry.parent]]

\* Flat list of subcategories: parent order, then subcategory order.
RECURSIVE FlattenTree(_)
FlattenTree(tree) ==
    IF tree = << >> THEN << >>
    ELSE SubsOf(Head(tree)) \o FlattenTree(Tail(tree))

SUB_CATEGORIES == FlattenTree(TAXONOMY_TREE)

ParentSet == {PARENT_CATEGORIES[i] : i \in 1..Len(PARENT_CATEGORIES)}

\* ========================================================================
\* Similarity Engine of the worker (workers/classifier.worker)
\* ========================================================================
\* A similarity is kept exactly, as dot / sqrt(den2), or is NaN.
NaN == [nan |-> TRUE, num |-> 0, den2 |-> 1]
Sim(num, den2) == [nan |-> FALSE, num |-> num, den2 |-> den2]

\* a[i] * b[i] with b[i] undefined (index past the end of b) giving NaN.
RECURSIVE DotUpTo(_, _, _)
DotUpTo(a, b, n) == IF n = 0 THEN 0 ELSE DotUpTo(a, b, n - 1) + a[n] * b[n]

\* The worker's cosineSimilarity: iterates over a.length, no length check,
\* no zero check: 0/0 is NaN, an index past the end of b makes every sum NaN.
WorkerCosine(a, b) ==
    IF Len(b) < Len(a) THEN NaN
    ELSE LET dot == DotUpTo(a, b, Len(a))
             normA == DotUpTo(a, a, Len(a))
             normB == DotUpTo(b, b, Len(a))
         IN  IF normA * normB = 0 THEN NaN ELSE Sim(dot, normA * normB)

\* The exported cosineSimilarity of services/vectorClassifier: throws on a
\* length mismatch, and returns 0 when the denominator is 0.
cosineSimilarity(a, b) ==
    IF Len(a) # Len(b) THEN [threw |-> TRUE, value |-> NaN]
    ELSE LET dot == DotUpTo(a, b, Len(a))
             normA == DotUpTo(a, a, Len(a))
             normB == DotUpTo(b, b, Len(a))
         IN  [threw |-> FALSE,
              value |-> IF normA * normB = 0 THEN Sim(0, 1)
                        ELSE Sim(dot, normA * normB)]

\* s1 > s2 on numbers of the form dot / sqrt(den2); false when either is NaN.
SimGT(s1, s2) ==
    IF s1.nan \/ s2.nan THEN FALSE
    ELSE IF s1.num >= 0 /\ s2.num < 0 THEN TRUE
    ELSE IF s1.num < 0 /\ s2.num >= 0 THEN FALSE
    ELSE IF s1.num >= 0
         THEN s1.num * s1.num * s2.den2 > s2.num * s2.num * s1.den2
         ELSE s1.num * s1.num * s2.den2 < s2.num * s2.num * s1.den2

\* ========================================================================
\* Embedding Classifier: the classification of one embedded text
\* ========================================================================
\* Mutant of BestMatchResult: the subcategory name is reported as the parent.
BestMatchResultNameAsParent(subCategory, maxSim) ==
    [subCategory |-> subCategory.name, parentCategory |-> subCategory.name,
     similarity |-> maxSim]

\* The result returned when an anchor was selected.
BestMatchResult(subCategory, maxSim) ==
    [subCategory |-> subCategory.name, parentCategory |-> subCategory.parent,
     similarity |-> maxSim]

\* Mutant of FallbackResult: the fallback carries no similarity.
FallbackResultWithoutSimilarity ==
    [subCategory |-> "Unknown", parentCategory |-> "Pantry & Dry Goods",
     similarity |-> NaN]

\* The fixed fallback.
FallbackResult ==
    [subCategory |-> "Unknown", parentCategory |-> "Pantry & Dry Goods",
     similarity |-> Sim(0, 1)]

\* The loop over the anchors from index k on: <<maxSim, best index or 0>>.
RECURSIVE BestFrom(_, _, _, _, _)
BestFrom(itemVector, anchors, k, maxSim, best) ==
    IF k > Len(anchors) THEN <<maxSim, best>>
    ELSE LET sim == WorkerCosine(itemVector, anchors[k].vector)
         IN  IF SimGT(sim, maxSim)
             THEN BestFrom(itemVector, anchors, k + 1, sim, k)
             ELSE BestFrom(itemVector, anchors, k + 1, maxSim, best)

\* classifyItem after the text is embedded: maxSim starts at -1.
ClassifyVector(itemVector, anchors) ==
    LET r == BestFrom(itemVector, anchors, 1, Sim(-1, 1), 0)
    IN  IF r[2] # 0 THEN BestMatchResult(anchors[r[2]].subCategory, r[1])
        ELSE FallbackResult

\* ========================================================================
\* Embedding-model oracle
\* ========================================================================
\* The oracle is external: a run fixes one embedding function (a "world").
\* Vectors are small integer vectors, so that similarities stay exact.
Worlds == 0..(NumWorlds - 1)

AnchorVecs == << <<1, 0>>, <<0, 1>>, <<1, 1>>, <<-1, 0>>, <<0, -1>> >>
ItemVecs == << <<1, 0>>, <<0, 1>>, <<0, 0>>, <<-1, -1>>, <<2, 1>> >>

\* The vector the oracle returns for the i-th anchor text.
AnchorVector(i, w) == AnchorVecs[(((i + 3 * w) \div 7) % Len(AnchorVecs)) + 1]

TextIndex(t) == CASE t = "milk" -> 0 [] t = "soda" -> 1 [] OTHER -> 2

\* The vector the oracle returns for an item text.
TextVector(t, w) == ItemVecs[((TextIndex(t) + w) % Len(ItemVecs)) + 1]

\* initialize(): the anchor cache, vectors zipped with their descriptors.
EmbedAnchors(w) ==
    [i \in 1..Len(SUB_CATEGORIES) |->
        [vector |-> AnchorVector(i, w), subCategory |-> SUB_CATEGORIES[i]]]

\* The item texts of the model.
Texts == {"milk", "soda", ""}

\* classifyItem on an initialized classifier, tabulated for every text and
\* embedding function.
ClassifyTable ==
    [w \in Worlds |->
        [t \in Texts |-> ClassifyVector(TextVector(t, w), EmbedAnchors(w))]]

ClassifyText(t, w) == ClassifyTable[w][t]

\* What a CLASSIFY_BATCH request resolves with: one result per text, in order.
ClassifyBatchResult(texts, w) ==
    [i \in 1..Len(texts) |-> ClassifyText(texts[i], w)]

\* ========================================================================
\* Pipeline Coordinator and Sharding Orchestrator (services/geminiService)
\* ========================================================================
\* --- promises of the four agent functions ---
Stages == {"extractor", "librarian", "interpreter", "matcher"}
IdlePromise == [state |-> "idle", value |-> << >>, err |-> ""]
PendingPromise == [state |-> "pending", value |-> << >>, err |-> ""]
Fulfilled(v) == [state |-> "fulfilled", value |-> v, err |-> ""]
Rejected(e) == [state |-> "rejected", value |-> << >>, err |-> e]

\* --- Promise.all over the shard map steps ---
EmptySlot == [set |-> FALSE, value |-> << >>]
AllSet(values) == \A i \in 1..Len(values) : values[i].set

\* Mutant of PromiseAllSettle: values are stored in order of arrival.
PromiseAllSettleByArrival(values, index, value) ==
    LET free == {i \in 1..Len(values) : ~values[i].set}
        first == CHOOSE i \in free : \A j \in free : i <= j
    IN  [values EXCEPT ![first] = [set |-> TRUE, value |-> value]]

\* Promise.all stores the value of the index-th promise in slot index.
PromiseAllSettle(values, index, value) ==
    [values EXCEPT ![index] = [set |-> TRUE, value |-> value]]

\* The index-th promise fulfils: the combined promise fulfils with the last.
PromiseAllOnFulfil(all, index, value) ==
    IF all.state # "pending" THEN all
    ELSE LET vs == PromiseAllSettle(all.values, index, value)
         IN  [state |-> IF AllSet(vs) THEN "fulfilled" ELSE "pending",
              values |-> vs, err |-> ""]

\* Mutant of PromiseAllOnReject: a failed promise counts as an empty result.
PromiseAllOnRejectSkip(all, index, err) == PromiseAllOnFulfil(all, index, << >>)

\* The index-th promise rejects: the combined promise rejects with the
\* first rejection.
PromiseAllOnReject(all, index, err) ==
    IF all.state = "pending" THEN [all EXCEPT !.state = "rejected", !.err = err]
    ELSE all

PromiseAllOf(n) ==
    [state |-> IF n = 0 THEN "fulfilled" ELSE "pending",
     values |-> [i \in 1..n |-> EmptySlot], err |-> ""]

\* shardResults.flat()
FlatValues(values) == Flat([i \in 1..Len(values) |-> values[i].value])

\* --- extraction oracle ---
RawNames == <<"milk", "soda", "">>
RawItem(i) == [idx |-> i, rawName |-> RawNames[(i % Len(RawNames)) + 1]]
ExtractCounts == (0..MaxExtract) \cup {ScenarioLen}
ExtractResponses ==
    {[kind |-> "error", items |-> << >>], [kind |-> "invalid", items |-> << >>]}
    \cup {[kind |-> "items", items |-> [i \in 1..n |-> RawItem(i)]] :
              n \in ExtractCounts}

\* --- normalization oracle ---
NormModes == {"clean", "blank", "short"}
NormItem(raw, mode) ==
    [src |-> raw.idx,
     normalizedName |-> IF mode = "blank" THEN "" ELSE raw.rawName,
     rawName |-> raw.rawName]
NormItems(shard, mode) ==
    [j \in 1..(IF mode = "short" THEN Len(shard) - 1 ELSE Len(shard)) |->
        NormItem(shard[j], mode)]
NormResponses(shard) ==
    {[kind |-> "error", items |-> << >>], [kind |-> "invalid", items |-> << >>]}
    \cup {[kind |-> "items", items |-> NormItems(shard, m)] : m \in NormModes}

\* Mutant of TextsToClassify: only the items that carry a normalizedName are
\* sent to the classifier.
TextsToClassifyNamed(items) ==
    LET named == SelectSeq(items, LAMBDA it : it.normalizedName # "")
    IN  [j \in 1..Len(named) |-> named[j].normalizedName]

\* item.normalizedName || item.rawName || ""
TextToClassify(item) ==
    IF item.normalizedName # "" THEN item.normalizedName ELSE item.rawName
TextsToClassify(items) == [j \in 1..Len(items) |-> TextToClassify(items[j])]

\* uuidv4(): an identifier no other item has.
IdOf(k, j) == 1000 * k + j

\* items.map((item, index) => ({...item, id, category, ...}))
CategorizedItems(items, classifications, k) ==
    [j \in 1..Len(items) |->
        [src |-> items[j].src,
         normalizedName |-> items[j].normalizedName,
         rawName |-> items[j].rawName,
         id |-> IdOf(k, j),
         category |-> classifications[j].parentCategory]]

ShardIdx == 1..Len(shards)

NoResult == [set |-> FALSE, matches |-> << >>, categorizedDeals |-> << >>]

InitPipe ==
    /\ pPc = "start"
    /\ pErr = ""
    /\ ret = [s \in Stages |-> IdlePromise]
    /\ extPc = "idle"
    /\ libPc = "idle"
    /\ shards = << >>
    /\ shardPc = << >>
    /\ shardItems = << >>
    /\ shardRet = << >>
    /\ shardErr = << >>
    /\ mapAll = PromiseAllOf(0)
    /\ settleOrder = << >>
    /\ oracleLog = << >>
    /\ classifyLog = << >>
    /\ result = NoResult

OracleCall(stage, k) == [stage |-> stage, shard |-> k]

\* analyzeGroceryAds up to the first await: the API key check, then
\* runAgentExtractor up to its await on the file encodings.
PipelineStart ==
    /\ pPc = "start"
    /\ \E apiKey \in BOOLEAN :
          IF apiKey
          THEN /\ pPc' = "awaitExtractor"
               /\ ret' = [ret EXCEPT !["extractor"] = PendingPromise]
               /\ extPc' = "encoding"
               /\ pErr' = pErr
          ELSE /\ pPc' = "error"
               /\ pErr' = "api_key_missing"
               /\ UNCHANGED <<ret, extPc>>
    /\ UNCHANGED <<libPc, shards, shardPc, shardItems, shardRet, shardErr,
                   mapAll, oracleLog, classifyLog, result>>
    /\ UNCHANGED settleOrder
    /\ PipeFrame

\* runAgentExtractor: the files are encoded and the extraction oracle is
\* called, or an encoding fails.
ExtractorEncoded ==
    /\ extPc = "encoding"
    /\ \E ok \in BOOLEAN :
          IF ok
          THEN /\ extPc' = "oracle"
               /\ oracleLog' = Append(oracleLog, OracleCall("extraction", 0))
               /\ ret' = ret
          ELSE /\ extPc' = "failed"
               /\ ret' = [ret EXCEPT !["extractor"] = Rejected("file_error")]
               /\ oracleLog' = oracleLog
    /\ UNCHANGED <<pPc, pErr, libPc, shards, shardPc, shardItems, shardRet,
                   shardErr, mapAll, classifyLog, result>>
    /\ UNCHANGED settleOrder
    /\ PipeFrame

\* runAgentExtractor: the oracle answers; parseWithZod validates.
ExtractorResponse ==
    /\ extPc = "oracle"
    /\ \E resp \in ExtractResponses :
          /\ extPc' = IF resp.kind = "items" THEN "returned" ELSE "failed"
          /\ ret' = [ret EXCEPT !["extractor"] =
                        CASE resp.kind = "error" -> Rejected("oracle_error")
                          [] resp.kind = "invalid" -> Rejected("validation_error")
                          [] OTHER -> Fulfilled(resp.items)]
    /\ UNCHANGED <<pPc, pErr, libPc, shards, shardPc, shardItems, shardRet,
                   shardErr, mapAll, oracleLog, classifyLog, result>>
    /\ UNCHANGED settleOrder
    /\ PipeFrame

\* analyzeGroceryAds: the catch block, for the stage it is awaiting.
AwaitedStage ==
    CASE pPc = "awaitExtractor" -> "extractor"
      [] pPc = "awaitLibrarian" -> "librarian"
      [] pPc = "awaitInterpreter" -> "interpreter"
      [] pPc = "awaitMatcher" -> "matcher"
      [] OTHER -> "none"

StageRejected ==
    /\ AwaitedStage # "none"
    /\ ret[AwaitedStage].state = "rejected"
    /\ pPc' = "error"
    /\ pErr' = ret[AwaitedStage].err
    /\ UNCHANGED <<ret, extPc, libPc, shards, shardPc, shardItems, shardRet,
                   shardErr, mapAll, oracleLog, classifyLog, result>>
    /\ UNCHANGED settleOrder
    /\ PipeFrame

\* Mutant of NoProducts: the empty check is left out.
NoProductsNever(rawItems) == FALSE

\* if (rawItems.length === 0)
NoProducts(rawItems) == Len(rawItems) = 0

\* analyzeGroceryAds after runAgentExtractor returned: the empty check, then
\* runAgentLibrarian up to its await on initializeVectorClassifier.
AfterExtractor ==
    /\ pPc = "awaitExtractor"
    /\ ret["extractor"].state = "fulfilled"
    /\ IF NoProducts(ret["extractor"].value)
       THEN /\ pPc' = "error"
            /\ pErr' = "no_products"
            /\ UNCHANGED <<ret, libPc>>
       ELSE /\ pPc' = "awaitLibrarian"
            /\ ret' = [ret EXCEPT !["librarian"] = PendingPromise]
            /\ libPc' = "awaitInit"
            /\ pErr' = pErr
    /\ UNCHANGED <<extPc, shards, shardPc, shardItems, shardRet, shardErr,
                   mapAll, oracleLog, classifyLog, result>>
    /\ UNCHANGED settleOrder
    /\ PipeFrame

\* runAgentLibrarian: initializeVectorClassifier rejects.
LibrarianInitFailed ==
    /\ libPc = "awaitInit"
    /\ libPc' = "failed"
    /\ ret' = [ret EXCEPT !["librarian"] = Rejected("init_error")]
    /\ UNCHANGED <<pPc, pErr, extPc, shards, shardPc, shardItems, shardRet,
                   shardErr, mapAll, oracleLog, classifyLog, result>>
    /\ UNCHANGED settleOrder
    /\ PipeFrame

\* runAgentLibrarian: the classifier is initialized; createShards, then
\* shards.map(processLibrarianShard): every shard runs up to its await on
\* the normalization oracle, in index order.
LibrarianDispatch ==
    /\ libPc = "awaitInit"
    /\ LET ss == createShards(ret["extractor"].value, SHARD_SIZE)
           n == Len(ss)
       IN  /\ shards' = ss
           /\ shardPc' = [k \in 1..n |-> "oracle"]
           /\ shardItems' = [k \in 1..n |-> << >>]
           /\ shardRet' = [k \in 1..n |-> << >>]
           /\ shardErr' = [k \in 1..n |-> ""]
           /\ mapAll' = PromiseAllOf(n)
           /\ oracleLog' = oracleLog \o
                           [k \in 1..n |-> OracleCall("normalization", k)]
    /\ libPc' = "awaitAll"
    /\ UNCHANGED <<pPc, pErr, ret, extPc, classifyLog, result>>
    /\ UNCHANGED settleOrder
    /\ PipeFrame

\* processLibrarianShard: the oracle answers; parseWithZod validates; the
\* texts are sent to classifyBatch.
ShardOracleResponse(k) ==
    /\ shardPc[k] = "oracle"
    /\ \E resp \in NormResponses(shards[k]) :
          IF resp.kind = "items"
          THEN /\ shardPc' = [shardPc EXCEPT ![k] = "classify"]
               /\ shardItems' = [shardItems EXCEPT ![k] = resp.items]
               /\ classifyLog' = Append(classifyLog,
                      [shard |-> k, texts |-> TextsToClassify(resp.items)])
               /\ UNCHANGED <<shardErr, mapAll>>
          ELSE LET e == IF resp.kind = "error" THEN "oracle_error"
                        ELSE "validation_error"
               IN  /\ shardPc' = [shardPc EXCEPT ![k] = "failed"]
                   /\ shardErr' = [shardErr EXCEPT ![k] = e]
                   /\ mapAll' = PromiseAllOnReject(mapAll, k, e)
                   /\ UNCHANGED <<shardItems, classifyLog>>
    /\ UNCHANGED <<pPc, pErr, ret, extPc, libPc, shards, shardRet, oracleLog,
                   result>>
    /\ UNCHANGED settleOrder
    /\ PipeFrame

\* processLibrarianShard: classifyBatch resolves; the items get their id and
\* category and the shard returns.
ShardClassified(k) ==
    /\ shardPc[k] = "classify"
    /\ LET classifications ==
               ClassifyBatchResult(TextsToClassify(shardItems[k]), world)
           out == CategorizedItems(shardItems[k], classifications, k)
       IN  /\ shardRet' = [shardRet EXCEPT ![k] = out]
           /\ mapAll' = PromiseAllOnFulfil(mapAll, k, out)
    /\ shardPc' = [shardPc EXCEPT ![k] = "done"]
    /\ settleOrder' = Append(settleOrder, k)
    /\ UNCHANGED <<pPc, pErr, ret, extPc, libPc, shards, shardItems, shardErr,
                   oracleLog, classifyLog, result>>
    /\ PipeFrame

\* processLibrarianShard: classifyBatch rejects (timeout or ERROR response).
ShardClassifyFailed(k) ==
    /\ shardPc[k] = "classify"
    /\ shardPc' = [shardPc EXCEPT ![k] = "failed"]
    /\ shardErr' = [shardErr EXCEPT ![k] = "classify_error"]
    /\ mapAll' = PromiseAllOnReject(mapAll, k, "classify_error")
    /\ UNCHANGED <<pPc, pErr, ret, extPc, libPc, shards, shardItems, shardRet,
                   oracleLog, classifyLog, result>>
    /\ UNCHANGED settleOrder
    /\ PipeFrame

\* runAgentLibrarian after Promise.all fulfilled: flatten and return.
LibrarianReturn ==
    /\ libPc = "awaitAll"
    /\ mapAll.state = "fulfilled"
    /\ libPc' = "returned"
    /\ ret' = [ret EXCEPT !["librarian"] = Fulfilled(FlatValues(mapAll.values))]
    /\ UNCHANGED <<pPc, pErr, extPc, shards, shardPc, shardItems, shardRet,
                   shardErr, mapAll, oracleLog, classifyLog, result>>
    /\ UNCHANGED settleOrder
    /\ PipeFrame

\* runAgentLibrarian after Promise.all rejected: the rejection propagates.
LibrarianAbort ==
    /\ libPc = "awaitAll"
    /\ mapAll.state = "rejected"
    /\ libPc' = "failed"
    /\ ret' = [ret EXCEPT !["librarian"] = Rejected(mapAll.err)]
    /\ UNCHANGED <<pPc, pErr, extPc, shards, shardPc, shardItems, shardRet,
                   shardErr, mapAll, oracleLog, classifyLog, result>>
    /\ UNCHANGED settleOrder
    /\ PipeFrame

\* --- oracle response texts of agents 3 and 4 ---
\* A response text is a JSON document, possibly inside a markdown code fence.
\* Documents: garbage (no JSON), an array, or an object with at most one
\* array-valued field (field = "" when it has none).
Garbage == [kind |-> "garbage", field |-> "", elems |-> << >>]
JArray(elems) == [kind |-> "array", field |-> "", elems |-> elems]
JObject(field, elems) == [kind |-> "object", field |-> field, elems |-> elems]

\* cleanJson followed by JSON.parse: a fenced document is taken whole; in an
\* unfenced text the array pattern [ ... ] is tried before the object pattern,
\* so an object holding an array is cut down to that array.
CleanAndParse(resp) ==
    IF resp.fenced THEN resp.doc
    ELSE IF resp.doc.kind = "object" /\ resp.doc.field # ""
         THEN JArray(resp.doc.elems)
         ELSE resp.doc

\* --- list-interpretation oracle ---
JStr(t) == [isString |-> TRUE, text |-> t]
JNum(t) == [isString |-> FALSE, text |-> t]
KeywordLists == { << >>, <<JStr("milk")>>, <<JStr("soda"), JNum("7")>> }
InterpDocs ==
    {Garbage, JObject("", << >>)}
    \cup {JArray(ks) : ks \in KeywordLists}
    \cup {JObject("expandedKeywords", ks) : ks \in KeywordLists}
TextResponses(docs) ==
    {[error |-> TRUE, fenced |-> FALSE, doc |-> Garbage]}
    \cup {[error |-> FALSE, fenced |-> f, doc |-> d] : f \in BOOLEAN, d \in docs}

\* Agent3ResponseSchema: an object whose expandedKeywords is a string array.
Agent3Valid(doc) ==
    /\ doc.kind = "object"
    /\ doc.field = "expandedKeywords"
    /\ \A i \in 1..Len(doc.elems) : doc.elems[i].isString

\* runAgentInterpreter after the oracle call: an array is returned as it is,
\* an object is validated against the schema.
InterpreterParse(resp) ==
    IF resp.error THEN Rejected("oracle_error")
    ELSE LET parsed == CleanAndParse(resp)
         IN  CASE parsed.kind = "garbage" -> Rejected("parse_error")
               [] parsed.kind = "array" -> Fulfilled(parsed.elems)
               [] Agent3Valid(parsed) -> Fulfilled(parsed.elems)
               [] OTHER -> Rejected("validation_error")

\* --- matching oracle ---
AbsentId == IdOf(0, 0)
MatchItem(id) == [id |-> id, itemName |-> "deal", valid |-> TRUE]
BadMatchItem == [id |-> AbsentId, itemName |-> "", valid |-> FALSE]
MatchIds(inventory) ==
    {AbsentId} \cup {inventory[i].id : i \in {1, Len(inventory)} \cap DOMAIN inventory}
MatchLists(inventory) ==
    {<<BadMatchItem>>}
    \cup UNION {[1..n -> {MatchItem(id) : id \in MatchIds(inventory)}] : n \in 0..MaxMatches}
MatchDocs(inventory) ==
    {Garbage, JObject("", << >>)}
    \cup {JObject("matches", ms) : ms \in MatchLists(inventory)}

\* Agent4ResponseSchema: an object with a matches array of {id, itemName}.
Agent4Valid(doc) ==
    /\ doc.kind = "object"
    /\ doc.field = "matches"
    /\ \A i \in 1..Len(doc.elems) : doc.elems[i].valid

\* inventory.find(i => i.id === id): the index of the first such item, or 0.
FindById(inventory, id) ==
    LET hits == {i \in 1..Len(inventory) : inventory[i].id = id}
    IN  IF hits = {} THEN 0 ELSE CHOOSE i \in hits : \A j \in hits : i <= j

Hydrated(item, m) ==
    [id |-> m.id, itemName |-> m.itemName, src |-> item.src,
     category |-> item.category, productName |-> item.normalizedName]

\* Mutant of HydrateMatches: the map without the filter, an absent item
\* leaving an entry without inventory data.
HydrateMatchesNoFilter(rawMatches, inventory) ==
    [i \in 1..Len(rawMatches) |->
        LET m == rawMatches[i]
            at == FindById(inventory, m.id)
        IN  IF at = 0
            THEN [id |-> m.id, itemName |-> m.itemName, src |-> 0,
                  category |-> "", productName |-> ""]
            ELSE Hydrated(inventory[at], m)]

\* rawMatches.map(...).filter(m => m !== null)
RECURSIVE HydrateMatches(_, _)
HydrateMatches(rawMatches, inventory) ==
    IF rawMatches = << >> THEN << >>
    ELSE LET m == Head(rawMatches)
             at == FindById(inventory, m.id)
             rest == HydrateMatches(Tail(rawMatches), inventory)
         IN  IF at = 0 THEN rest ELSE <<Hydrated(inventory[at], m)>> \o rest

\* runAgentMatcher after the oracle call.
MatcherParse(resp, inventory) ==
    IF resp.error THEN Rejected("oracle_error")
    ELSE LET parsed == CleanAndParse(resp)
         IN  CASE parsed.kind = "garbage" -> Rejected("parse_error")
               [] Agent4Valid(parsed) ->
                     Fulfilled(HydrateMatches(parsed.elems, inventory))
               [] OTHER -> Rejected("validation_error")

\* Mutant of CategorizedDeals: the empty groups are not filtered out.
CategorizedDealsUnfiltered(inventory) ==
    [c \in 1..Len(PARENT_CATEGORIES) |->
        [category |-> PARENT_CATEGORIES[c],
         items |-> SelectSeq(inventory,
                      LAMBDA item : item.category = PARENT_CATEGORIES[c])]]

\* The Deal Explorer groups: CATEGORIES.map(...).filter(non-empty).
CategorizedDeals(inventory) ==
    SelectSeq(
        [c \in 1..Len(PARENT_CATEGORIES) |->
            [category |-> PARENT_CATEGORIES[c],
             items |-> SelectSeq(inventory,
                          LAMBDA item : item.category = PARENT_CATEGORIES[c])]],
        LAMBDA g : Len(g.items) > 0)

\* Mutant of CanIssueInterpretation: runAgentLibrarian is not awaited.
CanIssueInterpretationEarly ==
    /\ pPc = "awaitLibrarian"
    /\ ret["librarian"].state \in {"pending", "fulfilled"}

\* analyzeGroceryAds resumes after `await runAgentLibrarian(...)`.
CanIssueInterpretation ==
    /\ pPc = "awaitLibrarian"
    /\ ret["librarian"].state = "fulfilled"

\* analyzeGroceryAds after runAgentLibrarian returned: runAgentInterpreter up
\* to its await on the interpretation oracle.
AfterLibrarian ==
    /\ CanIssueInterpretation
    /\ pPc' = "awaitInterpreter"
    /\ ret' = [ret EXCEPT !["interpreter"] = PendingPromise]
    /\ oracleLog' = Append(oracleLog, OracleCall("interpretation", 0))
    /\ UNCHANGED <<pErr, extPc, libPc, shards, shardPc, shardItems, shardRet,
                   shardErr, mapAll, classifyLog, result>>
    /\ UNCHANGED settleOrder
    /\ PipeFrame

\* runAgentInterpreter: the oracle answers.
InterpreterResponse ==
    /\ ret["interpreter"].state = "pending"
    /\ \E resp \in TextResponses(InterpDocs) :
          ret' = [ret EXCEPT !["interpreter"] = InterpreterParse(resp)]
    /\ UNCHANGED <<pPc, pErr, extPc, libPc, shards, shardPc, shardItems,
                   shardRet, shardErr, mapAll, oracleLog, classifyLog, result>>
    /\ UNCHANGED settleOrder
    /\ PipeFrame

\* Mutant of CanIssueMatching: a failure of runAgentInterpreter is swallowed.
CanIssueMatchingAfterFailure ==
    /\ pPc = "awaitInterpreter"
    /\ ret["interpreter"].state \in {"fulfilled", "rejected"}

\* analyzeGroceryAds resumes after `await runAgentInterpreter(...)`.
CanIssueMatching ==
    /\ pPc = "awaitInterpreter"
    /\ ret["interpreter"].state = "fulfilled"

\* analyzeGroceryAds after runAgentInterpreter returned: runAgentMatcher up to
\* its await on the matching oracle.
AfterInterpreter ==
    /\ CanIssueMatching
    /\ pPc' = "awaitMatcher"
    /\ ret' = [ret EXCEPT !["matcher"] = PendingPromise]
    /\ oracleLog' = Append(oracleLog, OracleCall("matching", 0))
    /\ UNCHANGED <<pErr, extPc, libPc, shards, shardPc, shardItems, shardRet,
                   shardErr, mapAll, classifyLog, result>>
    /\ UNCHANGED settleOrder
    /\ PipeFrame

\* runAgentMatcher: the oracle answers; the matches are hydrated.
MatcherResponse ==
    /\ ret["matcher"].state = "pending"
    /\ \E resp \in TextResponses(MatchDocs(ret["librarian"].value)) :
          ret' = [ret EXCEPT !["matcher"] =
                     MatcherParse(resp, ret["librarian"].value)]
    /\ UNCHANGED <<pPc, pErr, extPc, libPc, shards, shardPc, shardItems,
                   shardRet, shardErr, mapAll, oracleLog, classifyLog, result>>
    /\ UNCHANGED settleOrder
    /\ PipeFrame

\* analyzeGroceryAds after runAgentMatcher returned: the final assembly.
AfterMatcher ==
    /\ pPc = "awaitMatcher"
    /\ ret["matcher"].state = "fulfilled"
    /\ pPc' = "done"
    /\ result' = [set |-> TRUE,
                  matches |-> ret["matcher"].value,
                  categorizedDeals |-> CategorizedDeals(ret["librarian"].value)]
    /\ UNCHANGED <<pErr, ret, extPc, libPc, shards, shardPc, shardItems,
                   shardRet, shardErr, mapAll, oracleLog, classifyLog>>
    /\ UNCHANGED settleOrder
    /\ PipeFrame

NextPipe ==
    \/ PipelineStart
    \/ ExtractorEncoded
    \/ ExtractorResponse
    \/ StageRejected
    \/ AfterExtractor
    \/ LibrarianInitFailed
    \/ LibrarianDispatch
    \/ \E k \in ShardIdx : ShardOracleResponse(k)
    \/ \E k \in ShardIdx : ShardClassified(k)
    \/ \E k \in ShardIdx : ShardClassifyFailed(k)
    \/ LibrarianReturn
    \/ LibrarianAbort
    \/ AfterLibrarian
    \/ InterpreterResponse
    \/ AfterInterpreter
    \/ MatcherResponse
    \/ AfterMatcher

\* ========================================================================
\* Classifier Client (services/vectorClassifier) and classifier worker
\* (workers/classifier.worker)
\* ========================================================================
Instances == 1..MaxInstances
Callers == 1..MaxCalls

\* A ClassifierWorker object before its constructor has run.
BlankInstance ==
    [worker |-> FALSE, messageId |-> 0, pending |-> {}, timers |-> {},
     isReady |-> FALSE,
     initField |-> FALSE, initState |-> "none", initErr |-> ""]

\* A worker context before `new Worker(...)`: its module variables, and a
\* record of what it did (anchor cache writes, initialize() bodies entered and
\* failed, whether an item of a handler completed before an earlier one).
BlankWorker ==
    [state |-> "none", isInitialized |-> FALSE, extractor |-> FALSE,
     anchorWrites |-> 0, attempts |-> 0, failures |-> 0,
     outOfOrder |-> FALSE]

\* The value of a promise that has not been fulfilled.
NoValue == << >>

\* A call of an exported function that has not been issued.
IdleCall ==
    [kind |-> "none", pc |-> "idle", texts |-> << >>, waitsOn |-> 0,
     req |-> 0, value |-> NoValue, err |-> ""]

InitClient ==
    /\ classifierInstance = 0
    /\ nInst = 0
    /\ inst = [g \in Instances |-> BlankInstance]
    /\ reqs = [g \in Instances |-> << >>]
    /\ calls = [c \in Callers |-> IdleCall]
    /\ terminations = 0
    /\ wk = [g \in Instances |-> BlankWorker]
    /\ tasks = [g \in Instances |-> {}]
    /\ toWorker = [g \in Instances |-> << >>]
    /\ toClient = [g \in Instances |-> << >>]

\* --- inputs of the exported functions ---
PatternText(i) == RawNames[(i % Len(RawNames)) + 1]
BatchInputs == {[i \in 1..n |-> PatternText(i)] : n \in 0..MaxBatch}
ItemInputs == {<<"milk">>}
CallInputs ==
    {[kind |-> "initialize", texts |-> << >>]}
    \cup {[kind |-> "classifyItem", texts |-> t] : t \in ItemInputs}
    \cup {[kind |-> "classifyBatch", texts |-> t] : t \in BatchInputs}

\* --- sendMessage ---
TimeoutError == "Worker request timeout"
NewRequest(type, texts) ==
    [type |-> type, texts |-> texts, state |-> "pending", value |-> NoValue,
     err |-> ""]
Message(type, id, texts) == [type |-> type, id |-> id, texts |-> texts]

\* The id of the next message: `msg_${this.messageId++}`, counted from 1 here.
NextId(g) == inst[g].messageId + 1

\* Mutant of InstAfterSend: the counter is not incremented.
InstAfterSendSameId(g) ==
    [inst[g] EXCEPT !.pending = @ \cup {inst[g].messageId + 1},
                    !.timers = @ \cup {inst[g].messageId + 1}]

\* The instance after sendMessage armed the timer and registered the request.
InstAfterSend(g) ==
    [inst[g] EXCEPT !.messageId = @ + 1, !.pending = @ \cup {NextId(g)},
                    !.timers = @ \cup {NextId(g)}]

\* --- the singleton check of initializeVectorClassifier ---
\* Mutant of NeedsInstance: every call constructs a ClassifierWorker.
NeedsInstanceAlways == TRUE

\* if (!classifierInstance)
NeedsInstance == classifierInstance = 0

\* The instance the constructor makes: initWorker creates the init promise and
\* the worker; a throwing Worker constructor rejects the promise.
NewInstance(ctorOk) ==
    [BlankInstance EXCEPT
        !.worker = ctorOk, !.initField = TRUE,
        !.initState = IF ctorOk THEN "pending" ELSE "rejected",
        !.initErr = IF ctorOk THEN "" ELSE "ctor_error"]

\* Mutant of CanResume: a call does not wait for the init promise.
CanResumeBeforeInit(c) ==
    \/ calls[c].pc \in {"initAwait", "moduleAwait", "instAwait"}
    \/ /\ calls[c].pc = "sendAwait"
       /\ reqs[calls[c].waitsOn][calls[c].req].state \in {"resolved", "rejected"}

\* --- the awaits of a call ---
\* The promise a call waits for has settled.
CanResume(c) ==
    LET call == calls[c]
    IN  \/ /\ call.pc \in {"initAwait", "moduleAwait", "instAwait"}
           /\ inst[call.waitsOn].initState \in {"resolved", "rejected"}
        \/ /\ call.pc = "sendAwait"
           /\ reqs[call.waitsOn][call.req].state \in {"resolved", "rejected"}

\* Continuations of settled promises run before anything else does.
MicrotaskPending == \E c \in Callers : CanResume(c)

CallRejected(call, err) == [call EXCEPT !.pc = "rejected", !.err = err]
CallResolved(call, value) == [call EXCEPT !.pc = "resolved", !.value = value]

RequestType(kind) ==
    IF kind = "classifyItem" THEN "CLASSIFY" ELSE "CLASSIFY_BATCH"

\* An exported function is called and runs up to its first await:
\* initializeVectorClassifier, classifyItem or classifyBatch.
CallIssue(c) ==
    /\ calls[c].pc = "idle"
    /\ ~MicrotaskPending
    /\ \A d \in Callers : d < c => calls[d].pc # "idle"
    /\ \E in \in CallInputs : \E ctorOk \in BOOLEAN :
        IF NeedsInstance
        THEN LET g == nInst + 1
             IN  /\ nInst < MaxInstances
                 /\ nInst' = g
                 /\ classifierInstance' = g
                 /\ inst' = [inst EXCEPT ![g] = NewInstance(ctorOk)]
                 /\ wk' = [wk EXCEPT ![g].state =
                              IF ctorOk THEN "starting" ELSE "none"]
                 /\ calls' = [calls EXCEPT ![c] =
                       [IdleCall EXCEPT
                          !.kind = in.kind, !.texts = in.texts, !.waitsOn = g,
                          !.pc = IF in.kind = "initialize" THEN "initAwait"
                                 ELSE "moduleAwait"]]
        ELSE /\ ctorOk
             /\ calls' = [calls EXCEPT ![c] =
                   [IdleCall EXCEPT
                      !.kind = in.kind, !.texts = in.texts,
                      !.waitsOn = classifierInstance,
                      !.pc = IF in.kind = "initialize" THEN "initAwait"
                             ELSE "instAwait"]]
             /\ UNCHANGED <<nInst, classifierInstance, inst, wk>>
    /\ UNCHANGED <<reqs, terminations, tasks, toWorker, toClient>>
    /\ ClientFrame

\* A call resumes after `await classifierInstance['initPromise']` in
\* initializeVectorClassifier called directly.
ResumeInitialize(c) ==
    LET call == calls[c]
        p == inst[call.waitsOn]
    IN  /\ call.pc = "initAwait"
        /\ CanResume(c)
        /\ calls' = [calls EXCEPT ![c] =
              IF p.initState = "resolved" THEN CallResolved(call, None)
              ELSE CallRejected(call, p.initErr)]
        /\ UNCHANGED <<classifierInstance, nInst, inst, reqs, terminations,
                       wk, tasks, toWorker, toClient>>
        /\ ClientFrame

\* classifyItem / classifyBatch resume after `await
\* initializeVectorClassifier()` and call classifierInstance!.classifyX, which
\* runs up to `await this.initPromise`.
ResumeModule(c) ==
    LET call == calls[c]
        p == inst[call.waitsOn]
    IN  /\ call.pc = "moduleAwait"
        /\ CanResume(c)
        /\ calls' = [calls EXCEPT ![c] =
              IF p.initState = "rejected" THEN CallRejected(call, p.initErr)
              ELSE IF classifierInstance = 0
                   THEN CallRejected(call, "TypeError")
                   ELSE [call EXCEPT !.pc = "instAwait",
                                     !.waitsOn = classifierInstance]]
        /\ UNCHANGED <<classifierInstance, nInst, inst, reqs, terminations,
                       wk, tasks, toWorker, toClient>>
        /\ ClientFrame

\* ClassifierWorker.classifyItem / classifyBatch resume after `await
\* this.initPromise` and call sendMessage.
ResumeSend(c) ==
    LET call == calls[c]
        g == call.waitsOn
        p == inst[g]
        type == RequestType(call.kind)
    IN  /\ call.pc = "instAwait"
        /\ CanResume(c)
        /\ IF p.initState = "rejected"
           THEN /\ calls' = [calls EXCEPT ![c] = CallRejected(call, p.initErr)]
                /\ UNCHANGED <<inst, reqs, toWorker>>
           ELSE IF ~p.worker
           THEN /\ calls' = [calls EXCEPT ![c] =
                                CallRejected(call, "Worker not initialized")]
                /\ UNCHANGED <<inst, reqs, toWorker>>
           ELSE /\ calls' = [calls EXCEPT ![c] =
                                [call EXCEPT !.pc = "sendAwait",
                                             !.req = NextId(g)]]
                /\ inst' = [inst EXCEPT ![g] = InstAfterSend(g)]
                /\ reqs' = [reqs EXCEPT ![g] =
                               Append(@, NewRequest(type, call.texts))]
                /\ toWorker' = [toWorker EXCEPT ![g] =
                               Append(@, Message(type, NextId(g), call.texts))]
        /\ UNCHANGED <<classifierInstance, nInst, terminations, wk, tasks,
                       toClient>>
        /\ ClientFrame

\* A call resumes when the promise of sendMessage has settled.
ResumeResult(c) ==
    LET call == calls[c]
        r == reqs[call.waitsOn][call.req]
    IN  /\ call.pc = "sendAwait"
        /\ CanResume(c)
        /\ calls' = [calls EXCEPT ![c] =
              IF r.state = "resolved" THEN CallResolved(call, r.value)
              ELSE CallRejected(call, r.err)]
        /\ UNCHANGED <<classifierInstance, nInst, inst, reqs, terminations,
                       wk, tasks, toWorker, toClient>>
        /\ ClientFrame

\* --- messages from the worker ---
Reply(type, id, payload) == [type |-> type, id |-> id, payload |-> payload]
ReadyMessage == Reply("READY", 0, None)
ErrorEvent == Reply("error", 0, None)
InitResult(success, message) == [success |-> success, message |-> message]
ErrorPayload(message) == [message |-> message]

\* Mutant of SettledRequest: a response of type ERROR resolves the request.
SettledRequestAlwaysResolved(r, msg) ==
    [r EXCEPT !.state = "resolved", !.value = msg.payload]

\* The request after the response handler settled it: only the type ERROR
\* rejects, every other response resolves with the payload.
SettledRequest(r, msg) ==
    IF msg.type = "ERROR"
    THEN [r EXCEPT !.state = "rejected", !.err = msg.payload.message]
    ELSE [r EXCEPT !.state = "resolved", !.value = msg.payload]

\* Mutant of TimersAfterResponse: the response handler leaves the timer armed.
TimersKeptAfterResponse(g, id) == inst[g].timers

\* clearTimeout(timeout) of the response handler.
TimersAfterResponse(g, id) == inst[g].timers \ {id}

\* worker.onmessage and worker.onerror of the client, with the continuation
\* `.then(() => resolve())` of the INITIALIZE request.
ClientOnMessage(g) ==
    /\ inst[g].worker
    /\ toClient[g] # << >>
    /\ ~MicrotaskPending
    /\ LET msg == Head(toClient[g])
       IN  /\ toClient' = [toClient EXCEPT ![g] = Tail(@)]
           /\ IF msg.type = "READY"
              THEN /\ inst' = [inst EXCEPT ![g] =
                          [InstAfterSend(g) EXCEPT !.isReady = TRUE]]
                   /\ reqs' = [reqs EXCEPT ![g] =
                          Append(@, NewRequest("INITIALIZE", << >>))]
                   /\ toWorker' = [toWorker EXCEPT ![g] =
                          Append(@, Message("INITIALIZE", NextId(g), << >>))]
              ELSE IF msg.type = "error"
              THEN /\ inst' = [inst EXCEPT ![g] =
                          IF @.initState = "pending"
                          THEN [@ EXCEPT !.initState = "rejected",
                                         !.initErr = "Worker initialization failed"]
                          ELSE @]
                   /\ UNCHANGED <<reqs, toWorker>>
              ELSE IF msg.id \in inst[g].pending
              THEN LET r == SettledRequest(reqs[g][msg.id], msg)
                   IN  /\ reqs' = [reqs EXCEPT ![g][msg.id] = r]
                       /\ inst' = [inst EXCEPT ![g] =
                              [@ EXCEPT
                                 !.pending = @ \ {msg.id},
                                 !.timers = TimersAfterResponse(g, msg.id),
                                 !.initState =
                                    IF /\ r.type = "INITIALIZE"
                                       /\ r.state = "resolved"
                                       /\ @ = "pending"
                                    THEN "resolved" ELSE @]]
                       /\ UNCHANGED toWorker
              ELSE UNCHANGED <<inst, reqs, toWorker>>
    /\ UNCHANGED <<classifierInstance, nInst, calls, terminations, wk, tasks>>
    /\ ClientFrame

\* The timer of a request fires: the entry is deleted and the promise of
\* sendMessage rejected, which changes nothing when it is already settled.
Timeout(g) ==
    /\ ~MicrotaskPending
    /\ \E id \in inst[g].timers :
        /\ inst' = [inst EXCEPT ![g].pending = @ \ {id},
                                ![g].timers = @ \ {id}]
        /\ reqs' = [reqs EXCEPT ![g][id] =
                       IF @.state = "pending"
                       THEN [@ EXCEPT !.state = "rejected",
                                      !.err = TimeoutError]
                       ELSE @]
    /\ UNCHANGED <<classifierInstance, nInst, calls, terminations, wk, tasks,
                   toWorker, toClient>>
    /\ ClientFrame

\* Mutant of SingletonAfterTerminate: terminateClassifier leaves the
\* singleton pointing at the terminated instance.
SingletonKeptAfterTerminate == classifierInstance

\* classifierInstance = null
SingletonAfterTerminate == 0

\* Mutant of RequestsAfterTerminate: terminate() rejects the requests that
\* are waiting for a response.
RequestsRejectedAtTerminate(g) ==
    [n \in DOMAIN reqs[g] |->
        IF reqs[g][n].state = "pending"
        THEN [reqs[g][n] EXCEPT !.state = "rejected",
                                !.err = "Worker terminated"]
        ELSE reqs[g][n]]

\* terminate() touches neither pendingRequests nor the promises and timers
\* registered in it.
RequestsAfterTerminate(g) == reqs[g]

\* terminateClassifier() with an instance: ClassifierWorker.terminate(), then
\* the singleton is cleared.
Terminate ==
    /\ classifierInstance # 0
    /\ ~MicrotaskPending
    /\ LET g == classifierInstance
       IN  IF inst[g].worker
           THEN /\ inst' = [inst EXCEPT ![g] =
                       [@ EXCEPT !.worker = FALSE, !.isReady = FALSE,
                                 !.initField = FALSE]]
                /\ wk' = [wk EXCEPT ![g].state = "terminated"]
                /\ tasks' = [tasks EXCEPT ![g] = {}]
                /\ toWorker' = [toWorker EXCEPT ![g] = << >>]
                /\ toClient' = [toClient EXCEPT ![g] = << >>]
           ELSE UNCHANGED <<inst, wk, tasks, toWorker, toClient>>
    /\ reqs' = [reqs EXCEPT ![classifierInstance] =
                   RequestsAfterTerminate(classifierInstance)]
    /\ classifierInstance' = SingletonAfterTerminate
    /\ terminations' = terminations + 1
    /\ UNCHANGED <<nInst, calls>>
    /\ ClientFrame

\* --- the worker ---
\* The worker script ran to its last line: self.postMessage({type: 'READY'}).
WorkerStart(g) ==
    /\ wk[g].state = "starting"
    /\ ~MicrotaskPending
    /\ wk' = [wk EXCEPT ![g].state = "running"]
    /\ toClient' = [toClient EXCEPT ![g] = Append(@, ReadyMessage)]
    /\ UNCHANGED <<classifierInstance, nInst, inst, reqs, calls, terminations,
                   tasks, toWorker>>
    /\ ClientFrame

\* The worker script could not be loaded or run: an error event is raised.
WorkerFail(g) ==
    /\ wk[g].state = "starting"
    /\ ~MicrotaskPending
    /\ wk' = [wk EXCEPT ![g].state = "failed"]
    /\ toClient' = [toClient EXCEPT ![g] = Append(@, ErrorEvent)]
    /\ UNCHANGED <<classifierInstance, nInst, inst, reqs, calls, terminations,
                   tasks, toWorker>>
    /\ ClientFrame

\* Where classifyItem or initialize first waits: on the model load when the
\* classifier is not initialized, on the embedding of the item otherwise.
StartPc(w) == IF w.isInitialized THEN "embed" ELSE "load"

\* A running message handler: the classifyItem calls it made (one per text;
\* one initialize call for INITIALIZE) and the Promise.all over them.
NewTask(msg, w) ==
    [id |-> msg.id, type |-> msg.type, texts |-> msg.texts,
     pcs |-> IF msg.type = "INITIALIZE" THEN <<"load">>
             ELSE [i \in 1..Len(msg.texts) |-> StartPc(w)],
     all |-> PromiseAllOf(Len(msg.texts))]

\* The initialize() bodies the handler enters before its first await.
InitCalls(task) ==
    Cardinality({i \in 1..Len(task.pcs) : task.pcs[i] = "load"})

ResponseType(type) ==
    IF type = "CLASSIFY" THEN "CLASSIFY_RESPONSE" ELSE "CLASSIFY_BATCH_RESPONSE"

\* The payload of a classification response: one result, or the results of
\* Promise.all in slot order.
ResponsePayload(type, all) ==
    IF type = "CLASSIFY" THEN all.values[1].value
    ELSE [i \in 1..Len(all.values) |-> all.values[i].value]

\* The cases of the switch in self.onmessage.
KnownTypes == {"INITIALIZE", "CLASSIFY", "CLASSIFY_BATCH"}

\* default: the ERROR response to a message of another type.
UnknownTypeReply(msg) ==
    Reply("ERROR", msg.id, ErrorPayload("Unknown message type"))

\* self.onmessage up to its first await.
WorkerOnMessage(g) ==
    /\ wk[g].state = "running"
    /\ ~MicrotaskPending
    /\ toWorker[g] # << >>
    /\ LET msg == Head(toWorker[g])
           task == NewTask(msg, wk[g])
       IN  /\ toWorker' = [toWorker EXCEPT ![g] = Tail(@)]
           /\ IF msg.type \notin KnownTypes
              THEN /\ toClient' = [toClient EXCEPT ![g] =
                          Append(@, UnknownTypeReply(msg))]
                   /\ UNCHANGED tasks
              ELSE IF msg.type = "INITIALIZE" /\ wk[g].isInitialized
              THEN /\ toClient' = [toClient EXCEPT ![g] = Append(@,
                          Reply("INITIALIZE_RESPONSE", msg.id,
                                InitResult(TRUE, "Already initialized")))]
                   /\ UNCHANGED tasks
              ELSE IF msg.type # "INITIALIZE" /\ task.all.state = "fulfilled"
              THEN /\ toClient' = [toClient EXCEPT ![g] = Append(@,
                          Reply(ResponseType(msg.type), msg.id,
                                ResponsePayload(msg.type, task.all)))]
                   /\ UNCHANGED tasks
              ELSE /\ tasks' = [tasks EXCEPT ![g] = @ \cup {task}]
                   /\ UNCHANGED toClient
           /\ wk' = [wk EXCEPT ![g].attempts =
                        IF msg.type \in KnownTypes THEN @ + InitCalls(task)
                        ELSE @]
    /\ UNCHANGED <<classifierInstance, nInst, inst, reqs, calls, terminations>>
    /\ ClientFrame

\* --- the asynchronous steps of a running handler ---
Finished(t) == \A i \in 1..Len(t.pcs) : t.pcs[i] \in {"done", "failed"}

\* The handlers of worker g after task t became t2 (a finished handler is
\* dropped).
WithTask(g, t, t2) ==
    IF Finished(t2) THEN tasks[g] \ {t} ELSE (tasks[g] \ {t}) \cup {t2}

\* Mutant of ItemFulfilled: the results are collected as they complete.
ItemFulfilledByArrival(t, i, res) ==
    [t EXCEPT !.pcs[i] = "done",
              !.all = IF @.state # "pending" THEN @
                      ELSE LET vs == PromiseAllSettleByArrival(@.values, i, res)
                           IN  [state |-> IF AllSet(vs) THEN "fulfilled"
                                          ELSE "pending",
                                values |-> vs, err |-> ""]]

\* classifyItem number i of the handler returned result.
ItemFulfilled(t, i, res) ==
    [t EXCEPT !.pcs[i] = "done", !.all = PromiseAllOnFulfil(@, i, res)]

\* classifyItem number i of the handler threw err.
ItemRejected(t, i, err) ==
    [t EXCEPT !.pcs[i] = "failed", !.all = PromiseAllOnReject(@, i, err)]

\* Mutant of Posts: the catch block posts ERROR for every classifyItem call
\* that fails, also after the handler has answered.
PostsEveryFailure(t, t2) ==
    IF t2.all.state = "fulfilled" /\ t.all.state = "pending"
    THEN <<Reply(ResponseType(t.type), t.id, ResponsePayload(t.type, t2.all))>>
    ELSE IF \E i \in 1..Len(t.pcs) : t.pcs[i] # "failed" /\ t2.pcs[i] = "failed"
    THEN <<Reply("ERROR", t.id, ErrorPayload(t2.all.err))>>
    ELSE << >>

\* What the handler posts when its await settles by this step: the response,
\* or ERROR from the catch block.
Posts(t, t2) ==
    IF t.all.state # "pending" THEN << >>
    ELSE IF t2.all.state = "fulfilled"
    THEN <<Reply(ResponseType(t.type), t.id, ResponsePayload(t.type, t2.all))>>
    ELSE IF t2.all.state = "rejected"
    THEN <<Reply("ERROR", t.id, ErrorPayload(t2.all.err))>>
    ELSE << >>

\* Mutant of AfterInitFailure: a failed attempt marks the classifier
\* initialized.
AfterInitFailureMarksInitialized(w) == [w EXCEPT !.isInitialized = TRUE]

\* The worker state the catch block of initialize leaves.
AfterInitFailure(w) == w

NotInitializedError == "Worker not initialized"

\* initialize failed in step i of handler t: INITIALIZE answers success =
\* false, classifyItem throws.
InitFailure(g, t, i, w) ==
    /\ wk' = [wk EXCEPT ![g] =
                 [AfterInitFailure(w) EXCEPT !.failures = @ + 1]]
    /\ IF t.type = "INITIALIZE"
       THEN /\ tasks' = [tasks EXCEPT ![g] = @ \ {t}]
            /\ toClient' = [toClient EXCEPT ![g] = Append(@,
                   Reply("INITIALIZE_RESPONSE", t.id,
                         InitResult(FALSE, "init_error")))]
       ELSE LET t2 == ItemRejected(t, i, NotInitializedError)
            IN  /\ tasks' = [tasks EXCEPT ![g] = WithTask(g, t, t2)]
                /\ toClient' = [toClient EXCEPT ![g] = @ \o Posts(t, t2)]

\* `extractor = await pipeline(...)` settles.
TaskLoad(g) ==
    /\ wk[g].state = "running"
    /\ ~MicrotaskPending
    /\ \E t \in tasks[g] : \E i \in 1..Len(t.pcs) : \E ok \in BOOLEAN :
        /\ t.pcs[i] = "load"
        /\ IF ok
           THEN /\ wk' = [wk EXCEPT ![g].extractor = TRUE]
                /\ tasks' = [tasks EXCEPT ![g] =
                       WithTask(g, t, [t EXCEPT !.pcs[i] = "anchors"])]
                /\ UNCHANGED toClient
           ELSE InitFailure(g, t, i, wk[g])
    /\ UNCHANGED <<classifierInstance, nInst, inst, reqs, calls, terminations,
                   toWorker>>
    /\ ClientFrame

\* `await extractor(anchor texts)` settles: the anchor cache is written and
\* isInitialized set; classifyItem goes on to embed its item.
TaskAnchors(g) ==
    /\ wk[g].state = "running"
    /\ ~MicrotaskPending
    /\ \E t \in tasks[g] : \E i \in 1..Len(t.pcs) : \E ok \in BOOLEAN :
        /\ t.pcs[i] = "anchors"
        /\ IF ok
           THEN /\ wk' = [wk EXCEPT ![g].isInitialized = TRUE,
                                    ![g].anchorWrites = @ + 1]
                /\ IF t.type = "INITIALIZE"
                   THEN /\ tasks' = [tasks EXCEPT ![g] = @ \ {t}]
                        /\ toClient' = [toClient EXCEPT ![g] = Append(@,
                               Reply("INITIALIZE_RESPONSE", t.id,
                                     InitResult(TRUE, "Initialization complete")))]
                   ELSE /\ tasks' = [tasks EXCEPT ![g] =
                               WithTask(g, t, [t EXCEPT !.pcs[i] = "embed"])]
                        /\ UNCHANGED toClient
           ELSE InitFailure(g, t, i, wk[g])
    /\ UNCHANGED <<classifierInstance, nInst, inst, reqs, calls, terminations,
                   toWorker>>
    /\ ClientFrame

\* A classifyItem call made before call i of the handler is still running.
EarlierRunning(t, i) ==
    \E j \in 1..(i - 1) : t.pcs[j] \notin {"done", "failed"}

\* The classification classifyItem computes from the anchor cache.
ItemResult(text, w) ==
    IF w.anchorWrites > 0 THEN ClassifyText(text, world) ELSE FallbackResult

\* `await extractor(itemText)` settles: classifyItem returns its result, or
\* rethrows the error.
TaskEmbed(g) ==
    /\ wk[g].state = "running"
    /\ ~MicrotaskPending
    /\ \E t \in tasks[g] : \E i \in 1..Len(t.pcs) : \E ok \in BOOLEAN :
        /\ t.pcs[i] = "embed"
        /\ LET t2 == IF ok /\ wk[g].extractor
                     THEN ItemFulfilled(t, i, ItemResult(t.texts[i], wk[g]))
                     ELSE ItemRejected(t, i, "embed_error")
           IN  /\ tasks' = [tasks EXCEPT ![g] = WithTask(g, t, t2)]
               /\ toClient' = [toClient EXCEPT ![g] = @ \o Posts(t, t2)]
               /\ wk' = [wk EXCEPT ![g].outOfOrder =
                            @ \/ (t2.pcs[i] = "done" /\ EarlierRunning(t, i))]
    /\ UNCHANGED <<classifierInstance, nInst, inst, reqs, calls, terminations,
                   toWorker>>
    /\ ClientFrame

NextClient ==
    \/ \E c \in Callers : CallIssue(c)
    \/ \E c \in Callers : ResumeInitialize(c)
    \/ \E c \in Callers : ResumeModule(c)
    \/ \E c \in Callers : ResumeSend(c)
    \/ \E c \in Callers : ResumeResult(c)
    \/ \E g \in Instances : ClientOnMessage(g)
    \/ \E g \in Instances : Timeout(g)
    \/ Terminate
    \/ \E g \in Instances : WorkerStart(g)
    \/ \E g \in Instances : WorkerFail(g)
    \/ \E g \in Instances : WorkerOnMessage(g)
    \/ \E g \in Instances : TaskLoad(g)
    \/ \E g \in Instances : TaskAnchors(g)
    \/ \E g \in Instances : TaskEmbed(g)

\* ========================================================================
\* Pure routines, called on their own
\* ========================================================================
IdleFn == fnPc = "idle" /\ fnIn = None /\ fnOut = None

Returned(v) == [threw |-> FALSE, value |-> v]
Threw == [threw |-> TRUE, value |-> None]

\* --- the hydration of runAgentMatcher ---
\* Inventory items carry distinct ids (uuidv4).
InvIds == 1..(MaxInv + 1)
InvItem(id) ==
    [src |-> id, normalizedName |-> RawNames[(id % Len(RawNames)) + 1],
     rawName |-> "", id |-> id,
     category |-> PARENT_CATEGORIES[(id % Len(PARENT_CATEGORIES)) + 1]]
Inventories ==
    {[i \in 1..Len(ids) |-> InvItem(ids[i])] :
        ids \in {q \in SeqsUpTo(InvIds, MaxInv) :
                    \A i \in 1..Len(q) : \A j \in 1..Len(q) :
                        i # j => q[i] # q[j]}}
RawMatchLists == SeqsUpTo({MatchItem(id) : id \in InvIds}, MaxMatches)
HydrateInputs ==
    {[fn |-> "hydrate", rawMatches |-> ms, inventory |-> inv] :
        ms \in RawMatchLists, inv \in Inventories}

\* runAgentMatcher: rawMatches.map(...).filter(...) on the validated matches.
HydrateCall ==
    /\ fnPc = "call"
    /\ fnIn.fn = "hydrate"
    /\ fnPc' = "done"
    /\ fnOut' = Returned(HydrateMatches(fnIn.rawMatches, fnIn.inventory))
    /\ UNCHANGED fnIn
    /\ FnFrame

\* --- the cosineSimilarity routines ---
Vectors == UNION {[1..n -> {-1, 0, 1}] : n \in 0..MaxDim}
CosineInputs ==
    {[fn |-> f, a |-> a, b |-> b] :
        f \in {"cosineSimilarity", "workerCosineSimilarity"},
        a \in Vectors, b \in Vectors}

\* cosineSimilarity(a, b) of services/vectorClassifier.
CosineCall ==
    /\ fnPc = "call"
    /\ fnIn.fn = "cosineSimilarity"
    /\ fnPc' = "done"
    /\ fnOut' = cosineSimilarity(fnIn.a, fnIn.b)
    /\ UNCHANGED fnIn
    /\ FnFrame

\* cosineSimilarity(a, b) of the worker.
WorkerCosineCall ==
    /\ fnPc = "call"
    /\ fnIn.fn = "workerCosineSimilarity"
    /\ fnPc' = "done"
    /\ fnOut' = Returned(WorkerCosine(fnIn.a, fnIn.b))
    /\ UNCHANGED fnIn
    /\ FnFrame

\* --- one run of self.onmessage of an initialized worker ---
\* A message of any type, with or without its payload, and what becomes of
\* each classifyItem call it makes (in the order in which they complete).
MessageTypes == KnownTypes \cup {"PING"}
Completions(n) ==
    {o \in [1..n -> 1..n] : \A i \in 1..n : \A j \in 1..n : i # j => o[i] # o[j]}
CallCounts(type) ==
    IF type = "CLASSIFY_BATCH" THEN 0..MaxBatch
    ELSE IF type = "CLASSIFY" THEN {1} ELSE {0}
OnMessageInputs ==
    UNION {UNION {
        {[fn |-> "onmessage", type |-> ty, id |-> id, hasPayload |-> p,
          texts |-> [i \in 1..n |-> PatternText(i)], ok |-> ok, order |-> o] :
            id \in 1..2, p \in BOOLEAN, ok \in [1..n -> BOOLEAN],
            o \in Completions(n)} :
        n \in CallCounts(ty)} : ty \in MessageTypes}

\* The messages the handler of task t posts while its classifyItem calls
\* complete in the order `order`, call i returning when ok[i] and throwing
\* otherwise.
RECURSIVE RunItems(_, _, _)
RunItems(t, order, ok) ==
    IF order = << >> THEN << >>
    ELSE LET i == Head(order)
             t2 == IF ok[i] THEN ItemFulfilled(t, i, FallbackResult)
                   ELSE ItemRejected(t, i, "embed_error")
         IN  Posts(t, t2) \o RunItems(t2, Tail(order), ok)

\* self.onmessage on one message, run to completion.
OnMessagePosts(in) ==
    LET msg == Message(in.type, in.id, in.texts)
        task == NewTask(msg, [isInitialized |-> TRUE])
    IN  IF in.type \notin KnownTypes THEN <<UnknownTypeReply(msg)>>
        ELSE IF in.type = "INITIALIZE"
        THEN <<Reply("INITIALIZE_RESPONSE", in.id,
                     InitResult(TRUE, "Already initialized"))>>
        ELSE IF ~in.hasPayload
        THEN <<Reply("ERROR", in.id, ErrorPayload("TypeError"))>>
        ELSE IF task.all.state = "fulfilled"
        THEN <<Reply(ResponseType(in.type), in.id,
                     ResponsePayload(in.type, task.all))>>
        ELSE RunItems(task, in.order, in.ok)

OnMessageCall ==
    /\ fnPc = "call"
    /\ fnIn.fn = "onmessage"
    /\ fnPc' = "done"
    /\ fnOut' = Returned(OnMessagePosts(fnIn))
    /\ UNCHANGED fnIn
    /\ FnFrame

\* --- classifyItem of the worker after the text is embedded ---
\* An anchor cache of up to MaxAnchors anchors (the k-th with the k-th
\* descriptor of the flattened taxonomy) and the vector of the item.
CacheVectors == {<<1, 0>>, <<0, 1>>, <<1, 1>>, <<-1, 0>>, <<0, 0>>}
AnchorCaches ==
    {[k \in 1..Len(vs) |-> [vector |-> vs[k], subCategory |-> SUB_CATEGORIES[k]]] :
        vs \in SeqsUpTo(CacheVectors, MaxAnchors)}
ClassifyInputs ==
    {[fn |-> "classifyItem", itemVector |-> v, anchors |-> c] :
        v \in [1..2 -> {-1, 0, 1}], c \in AnchorCaches}

ClassifyCall ==
    /\ fnPc = "call"
    /\ fnIn.fn = "classifyItem"
    /\ fnPc' = "done"
    /\ fnOut' = Returned(ClassifyVector(fnIn.itemVector, fnIn.anchors))
    /\ UNCHANGED fnIn
    /\ FnFrame

FnInputs ==
    HydrateInputs \cup CosineInputs \cup OnMessageInputs \cup ClassifyInputs
InitFn == fnPc = "call" /\ fnIn \in FnInputs /\ fnOut = None
NextFn ==
    \/ HydrateCall
    \/ CosineCall
    \/ WorkerCosineCall
    \/ OnMessageCall
    \/ ClassifyCall

\* ========================================================================
\* Specifications
\* ========================================================================
\* createShards alone.
InitOfShards == InitShards /\ world = 0 /\ InitPipe /\ InitClient /\ IdleFn
SpecShards == InitOfShards /\ [][NextShards]_vars

\* analyzeGroceryAds, with the Classifier Client seen through its promises.
Init == IdleShards /\ world \in Worlds /\ InitPipe /\ InitClient /\ IdleFn
Next == NextPipe
Spec == Init /\ [][Next]_vars

\* The Classifier Client and its workers, under calls, timeouts, failures
\* and terminations.
InitOfClient ==
    IdleShards /\ world \in Worlds /\ InitPipe /\ InitClient /\ IdleFn
SpecClient == InitOfClient /\ [][NextClient]_vars

\* The same, with the scheduling the event loop guarantees: a timer that was
\* set and not cleared fires, and the continuation of a settled promise runs.
RequestIds == 1..(MaxCalls + 1)
TimerFires(g, id) ==
    /\ id \in inst[g].pending
    /\ UNCHANGED toClient
    /\ Timeout(g)
    /\ id \notin inst'[g].pending
SpecClientFair ==
    /\ InitOfClient
    /\ [][NextClient]_vars
    /\ \A c \in Callers :
          /\ WF_vars(ResumeInitialize(c))
          /\ WF_vars(ResumeModule(c))
          /\ WF_vars(ResumeSend(c))
          /\ WF_vars(ResumeResult(c))
    /\ \A g \in Instances : \A id \in RequestIds : WF_vars(TimerFires(g, id))

\* The pure routines, each called once on every input.
InitOfFn == IdleShards /\ world = 0 /\ InitPipe /\ InitClient /\ InitFn
SpecFn == InitOfFn /\ [][NextFn]_vars

\* ------------------------------------------------------------------------
\* Properties of the pipeline (checked under Spec)
\* ------------------------------------------------------------------------
Srcs(items) == [i \in 1..Len(items) |-> items[i].src]
Increasing(items) ==
    \A i \in 1..(Len(items) - 1) : items[i].src < items[i + 1].src

\* C2: whatever order the shard map steps complete in, runAgentLibrarian
\* returns the shard results concatenated in shard-index order, each shard's
\* items in the order the shard produced them (so the raw items' relative
\* order is kept across shard boundaries).
C2_MergeInShardOrder ==
    ret["librarian"].state = "fulfilled" =>
        /\ ret["librarian"].value = Flat(shardRet)
        /\ \A k \in ShardIdx : Srcs(shardRet[k]) = Srcs(shardItems[k])
        /\ Increasing(ret["librarian"].value)

\* Witness of C2: three shards completed last-to-first and were merged.
C2_Witness ==
    /\ ret["librarian"].state = "fulfilled"
    /\ settleOrder = <<3, 2, 1>>
    /\ Len(ret["librarian"].value) = ScenarioLen

FailedShards == {k \in ShardIdx : shardPc[k] = "failed"}

\* C3: once the map step of one shard has failed, Promise.all is rejected
\* with the failure of a failed shard, runAgentLibrarian never returns a
\* merged collection and, once it has resumed, has rejected with that failure;
\* no later stage is started.
C3_ShardFailureAborts ==
    FailedShards # {} =>
        /\ mapAll.state = "rejected"
        /\ \E k \in FailedShards : mapAll.err = shardErr[k]
        /\ ret["librarian"].state \in {"pending", "rejected"}
        /\ libPc # "awaitAll" =>
              /\ libPc = "failed"
              /\ ret["librarian"] = Rejected(mapAll.err)
        /\ pPc \in {"awaitLibrarian", "error"}
        /\ ~result.set

\* Witness of C3: one shard failed, the two others succeeded, the call failed.
C3_Witness ==
    /\ Cardinality(FailedShards) = 1
    /\ Cardinality({k \in ShardIdx : shardPc[k] = "done"}) = 2
    /\ ret["librarian"].state = "rejected"
    /\ pPc = "error"

Categories(items) == {items[i].category : i \in 1..Len(items)}

Issued(stage) == \E i \in 1..Len(oracleLog) : oracleLog[i].stage = stage
StageRank(stage) ==
    CASE stage = "extraction" -> 1
      [] stage = "normalization" -> 2
      [] stage = "interpretation" -> 3
      [] OTHER -> 4

\* C10: the oracle calls are issued in stage order and the oracle of a stage
\* is called only when the previous stage has returned successfully; a result
\* exists only when the matcher has returned.
C10_StagesInOrder ==
    /\ \A i \in 1..Len(oracleLog) : \A j \in 1..Len(oracleLog) :
          i < j => /\ StageRank(oracleLog[i].stage) <= StageRank(oracleLog[j].stage)
                   /\ oracleLog[i].stage = oracleLog[j].stage
                        => oracleLog[i].stage = "normalization"
    /\ Issued("normalization") => ret["extractor"].state = "fulfilled"
    /\ Issued("interpretation") => ret["librarian"].state = "fulfilled"
    /\ Issued("matching") => ret["interpreter"].state = "fulfilled"
    /\ (result.set \/ pPc = "done") =>
          /\ ret["matcher"].state = "fulfilled"
          /\ Issued("matching")

\* Witness of C10: a run over three shards that returned a result.
C10_Witness ==
    /\ pPc = "done"
    /\ result.set
    /\ Len(oracleLog) = 6

\* ------------------------------------------------------------------------
\* Properties of the Classifier Client and worker (checked under SpecClient)
\* ------------------------------------------------------------------------
\* C5: a classifyBatch call that returns has one result per text, the i-th
\* being the classification of texts[i], and so has every batch response the
\* worker posts, in whatever order the per-item classifications completed.
C5_BatchInInputOrder ==
    /\ \A c \in Callers :
          (calls[c].kind = "classifyBatch" /\ calls[c].pc = "resolved") =>
              /\ Len(calls[c].value) = Len(calls[c].texts)
              /\ \A i \in 1..Len(calls[c].texts) :
                    calls[c].value[i] = ClassifyText(calls[c].texts[i], world)
    /\ \A g \in Instances : \A k \in 1..Len(toClient[g]) :
          toClient[g][k].type = "CLASSIFY_BATCH_RESPONSE" =>
              toClient[g][k].payload =
                  ClassifyBatchResult(reqs[g][toClient[g][k].id].texts, world)

\* Witness of C5: the only two-text batch of the run returned, and the worker
\* finished its second item before its first.
C5_Witness ==
    /\ calls[1].kind = "classifyBatch"
    /\ calls[1].pc = "resolved"
    /\ Len(calls[1].texts) = 2
    /\ calls[1].value[1] # calls[1].value[2]
    /\ calls[2].pc = "idle"
    /\ nInst = 1
    /\ wk[1].outOfOrder

\* The init promise of instance g can no longer resolve: the INITIALIZE
\* request, whose fulfilment alone resolves it, was rejected.
InitStuck(g) ==
    /\ inst[g].initState = "pending"
    /\ \E n \in 1..Len(reqs[g]) :
          reqs[g][n].type = "INITIALIZE" /\ reqs[g][n].state = "rejected"

\* The timer of request id of instance g fires in this step.
TimeoutFires(g, id) ==
    /\ id \in inst[g].pending
    /\ id \notin inst'[g].pending
    /\ reqs'[g][id].state = "rejected"
    /\ reqs'[g][id].err = TimeoutError

\* C6: when the timer of a request fires, its entry is removed and its
\* promise rejected with the timeout error, every other entry and request is
\* unchanged, and the client stays usable: its initialization can still
\* complete, so that a request sent afterwards can be answered.
C6_TimeoutKeepsClientUsable ==
    [][\A g \in Instances : \A id \in inst[g].pending :
          TimeoutFires(g, id) =>
              /\ inst'[g].pending = inst[g].pending \ {id}
              /\ \A n \in 1..Len(reqs[g]) : n # id => reqs'[g][n] = reqs[g][n]
              /\ ~InitStuck(g)']_vars

\* The INITIALIZE request of instance g was answered with success = true.
InitSucceeded(g) ==
    \E n \in 1..Len(reqs[g]) :
        /\ reqs[g][n].type = "INITIALIZE"
        /\ reqs[g][n].state = "resolved"
        /\ reqs[g][n].value.success

\* C7: the init promise of an instance is resolved, and a CLASSIFY or
\* CLASSIFY_BATCH request sent, only when the worker has answered INITIALIZE
\* with success = true.
C7_UsableOnlyAfterSuccess ==
    \A g \in Instances :
        /\ inst[g].initState = "resolved" => InitSucceeded(g)
        /\ \A n \in 1..Len(reqs[g]) :
              reqs[g][n].type \in {"CLASSIFY", "CLASSIFY_BATCH"}
                  => InitSucceeded(g)

InitializeSent(g) ==
    Cardinality({n \in 1..Len(reqs[g]) : reqs[g][n].type = "INITIALIZE"})
AwaitingInit(c) == calls[c].pc \in {"initAwait", "moduleAwait", "instAwait"}

\* C8: a worker is created only when there is no instance (so, without a
\* termination, one worker however many calls are issued), each instance
\* sends INITIALIZE at most once, exactly once when READY was handled, and
\* the calls waiting for initialization all wait on the init promise of the
\* one instance.
C8_SingleInitialization ==
    /\ nInst = terminations + (IF classifierInstance # 0 THEN 1 ELSE 0)
    /\ \A g \in Instances :
          /\ InitializeSent(g) <= 1
          /\ inst[g].isReady => InitializeSent(g) = 1
          /\ Len(reqs[g]) > 0 => reqs[g][1].type = "INITIALIZE"
    /\ terminations = 0 =>
          \A c \in Callers : calls[c].pc # "idle" =>
              /\ nInst = 1
              /\ calls[c].waitsOn = 1

\* Witness of C8: two calls issued before initialization completed, both
\* waiting on the init promise of the one instance, INITIALIZE sent once.
C8_Witness ==
    /\ terminations = 0
    /\ nInst = 1
    /\ \A c \in Callers : AwaitingInit(c) /\ calls[c].waitsOn = 1
    /\ calls[1].kind # calls[2].kind
    /\ inst[1].initState = "pending"
    /\ InitializeSent(1) = 1

\* The last message the worker of g posted is a failure report: INITIALIZE
\* answered success = false, or ERROR.
FailureReported(g) ==
    /\ Len(toClient'[g]) = Len(toClient[g]) + 1
    /\ LET m == toClient'[g][Len(toClient'[g])]
       IN  \/ m.type = "INITIALIZE_RESPONSE" /\ ~m.payload.success
           \/ m.type = "ERROR" /\ m.payload.message = NotInitializedError

\* The handler of a failed classifyItem had already answered ERROR.
AlreadyReported(g) ==
    \E t \in tasks[g] : t.all.state = "rejected" /\ t \notin tasks'[g]

\* The worker of g takes the next message in this step.
Delivered(g) ==
    /\ wk[g].state = "running"
    /\ wk'[g].state = "running"
    /\ toWorker[g] # << >>
    /\ toWorker'[g] = Tail(toWorker[g])

\* C9: a failed initialization attempt leaves isInitialized as it was (only
\* a completed anchor embedding sets it) and is reported to the requester
\* (success = false to INITIALIZE, ERROR to a classification request); a
\* message handled while the classifier is not initialized enters initialize
\* again, once for INITIALIZE and once per item to classify.
C9_InitFailureAndRetry ==
    [][\A g \in Instances :
          /\ wk'[g].failures > wk[g].failures =>
                /\ wk'[g].isInitialized = wk[g].isInitialized
                /\ FailureReported(g) \/ AlreadyReported(g)
          /\ wk'[g].isInitialized => wk'[g].anchorWrites > 0
          /\ (Delivered(g) /\ ~wk[g].isInitialized) =>
                LET msg == Head(toWorker[g])
                IN  wk'[g].attempts = wk[g].attempts +
                        (IF msg.type = "INITIALIZE" THEN 1 ELSE Len(msg.texts))
      ]_vars

\* Witness of C9: INITIALIZE was answered success = false, and a later
\* classifyItem call initialized the classifier and returned.
C9_Witness ==
    /\ wk[1].failures = 1
    /\ wk[1].attempts = 2
    /\ wk[1].isInitialized
    /\ reqs[1][1].state = "resolved"
    /\ ~reqs[1][1].value.success
    /\ calls[1].kind = "classifyItem"
    /\ calls[1].pc = "resolved"
    /\ calls[1].value = ClassifyText(calls[1].texts[1], world)

\* --- failure of a stage ---
StageOrder == <<"extractor", "librarian", "interpreter", "matcher">>
OracleOf == <<"extraction", "normalization", "interpretation", "matching">>
AwaitPcOf ==
    <<"awaitExtractor", "awaitLibrarian", "awaitInterpreter", "awaitMatcher">>

\* C11: once a stage has failed, no later stage is started and no oracle
\* call of a later stage is issued; no oracle call is issued twice; the call
\* rejects with the failure of that stage (or with the missing API key or the
\* empty extraction) and no result is returned.
C11_FailFast ==
    /\ \A i \in 1..Len(StageOrder) :
          ret[StageOrder[i]].state = "rejected" =>
              /\ \A j \in (i + 1)..Len(StageOrder) :
                    /\ ret[StageOrder[j]].state = "idle"
                    /\ ~Issued(OracleOf[j])
              /\ pPc \in {AwaitPcOf[i], "error"}
              /\ pPc = "error" => pErr = ret[StageOrder[i]].err
              /\ ~result.set
    /\ pPc = "error" =>
          /\ ~result.set
          /\ \/ pErr = "api_key_missing" /\ oracleLog = << >>
             \/ pErr = "no_products"
             \/ \E s \in Stages : ret[s].state = "rejected" /\ pErr = ret[s].err
    /\ \A i \in 1..Len(oracleLog) : \A j \in 1..Len(oracleLog) :
          i # j => oracleLog[i] # oracleLog[j]

\* Witness of C11: the interpreter stage failed after three shards were
\* normalized, and the call rejected with its failure.
C11_Witness ==
    /\ pPc = "error"
    /\ ret["interpreter"].state = "rejected"
    /\ pErr = "validation_error"
    /\ Len(oracleLog) = 5
    /\ ret["matcher"].state = "idle"

\* C12: when the extraction oracle returned zero items, the call fails with
\* the "no products" error; runAgentLibrarian (and with it the classifier
\* initialization and the normalization oracle), the interpretation oracle
\* and the matching oracle are never invoked, and no result is returned.
C12_EmptyExtractionIsFatal ==
    (ret["extractor"].state = "fulfilled" /\ ret["extractor"].value = << >>) =>
        /\ pPc \in {"awaitExtractor", "error"}
        /\ pPc = "error" => pErr = "no_products"
        /\ libPc = "idle"
        /\ \A s \in Stages \ {"extractor"} : ret[s].state = "idle"
        /\ oracleLog = <<OracleCall("extraction", 0)>>
        /\ classifyLog = << >>
        /\ shards = << >>
        /\ ~result.set

\* Witness of C12: the extraction returned an empty list and the call failed.
C12_Witness ==
    /\ ret["extractor"] = Fulfilled(<< >>)
    /\ pPc = "error"
    /\ pErr = "no_products"

\* ------------------------------------------------------------------------
\* Properties of the pure routines (checked under SpecFn)
\* ------------------------------------------------------------------------
IdsOf(items) == {items[i].id : i \in 1..Len(items)}

\* C13: the hydrated list is the oracle's match list restricted, in the
\* oracle's order, to the matches whose id is the id of an inventory item,
\* each carrying the data of that item; a match with an absent id is dropped
\* and no error is raised.
C13_HydrateDropsAbsentIds ==
    (fnPc = "done" /\ fnIn.fn = "hydrate") =>
        LET inv == fnIn.inventory
            kept == SelectSeq(fnIn.rawMatches, LAMBDA m : m.id \in IdsOf(inv))
            out == fnOut.value
        IN  /\ ~fnOut.threw
            /\ Len(out) = Len(kept)
            /\ \A i \in 1..Len(kept) :
                  /\ out[i].id = kept[i].id
                  /\ out[i].itemName = kept[i].itemName
                  /\ \E j \in 1..Len(inv) :
                        /\ inv[j].id = out[i].id
                        /\ out[i].src = inv[j].src
                        /\ out[i].category = inv[j].category

\* Witness of C13: of two matches, the first has an id absent from a two-item
\* inventory and is dropped, the second is kept.
C13_Witness ==
    /\ fnPc = "done"
    /\ fnIn.fn = "hydrate"
    /\ Len(fnIn.inventory) = 2
    /\ Len(fnIn.rawMatches) = 2
    /\ fnIn.rawMatches[1].id \notin IdsOf(fnIn.inventory)
    /\ fnIn.rawMatches[2].id \in IdsOf(fnIn.inventory)
    /\ Len(fnOut.value) = 1
    /\ fnOut.value[1].id = fnIn.rawMatches[2].id

\* ------------------------------------------------------------------------
\* Validation of oracle responses (checked under Spec)
\* ------------------------------------------------------------------------
\* C14: a response that does not conform to the schema of its oracle fails
\* the stage, so that the keywords handed to the matching stage are always a
\* list of strings.
C14_OnlyValidatedKeywordsPassedOn ==
    Issued("matching") =>
        /\ ret["interpreter"].state = "fulfilled"
        /\ \A i \in 1..Len(ret["interpreter"].value) :
              ret["interpreter"].value[i].isString

\* ------------------------------------------------------------------------
\* Termination of the classifier (checked under SpecClient)
\* ------------------------------------------------------------------------
TornDown(g) == ~inst[g].worker /\ wk[g].state \in {"none", "terminated"}

\* C15: after terminateClassifier() the worker of the instance is torn down
\* and the singleton is reset: an instance that is not the singleton has no
\* worker, the singleton never points at a terminated worker, and a call
\* that runs on an instance created after a termination sends its request
\* to the new worker, after that instance sent INITIALIZE (which it does on
\* READY) as its first request and the response arrived.
C15_TerminateThenFreshHandshake ==
    /\ \A g \in 1..nInst : g # classifierInstance => TornDown(g)
    /\ classifierInstance # 0 => wk[classifierInstance].state # "terminated"
    /\ \A c \in Callers :
          (calls[c].waitsOn > 1 /\ calls[c].req # 0) =>
              LET g == calls[c].waitsOn
              IN  /\ terminations >= g - 1
                  /\ calls[c].req > 1
                  /\ reqs[g][1].type = "INITIALIZE"
                  /\ reqs[g][1].state = "resolved"
                  /\ reqs[g][calls[c].req].type = RequestType(calls[c].kind)

\* Witness of C15: the first call ran on the first instance, the classifier
\* was terminated, and the second call has sent its request as the second
\* message of the second instance, whose INITIALIZE was answered.
C15_Witness ==
    /\ terminations = 1
    /\ calls[1].waitsOn = 1
    /\ calls[1].req # 0
    /\ TornDown(1)
    /\ classifierInstance = 2
    /\ calls[2].waitsOn = 2
    /\ calls[2].req = 2
    /\ reqs[2][1].type = "INITIALIZE"
    /\ reqs[2][1].state = "resolved"

\* The request of call c was waiting for its response when the worker of its
\* instance was terminated.
InFlightAtTerminate(c) ==
    /\ calls[c].pc = "sendAwait"
    /\ wk[calls[c].waitsOn].state = "terminated"
    /\ reqs[calls[c].waitsOn][calls[c].req].state = "pending"
    /\ calls[c].req \in inst[calls[c].waitsOn].pending
ObservedTimeout(c) == calls[c].pc = "rejected" /\ calls[c].err = TimeoutError

\* C16: terminate() settles no request and leaves the pending entries and
\* the waiting calls as they are; and the caller of every classify request
\* that was in flight at the termination eventually gets the timeout error of
\* that request.
C16_InFlightRequestsTimeOut ==
    /\ [][Terminate =>
            /\ reqs' = reqs
            /\ calls' = calls
            /\ \A g \in Instances : inst'[g].pending = inst[g].pending]_vars
    /\ \A c \in Callers : InFlightAtTerminate(c) ~> ObservedTimeout(c)

\* Witness of C16: a call whose request was in flight at the termination has
\* been rejected with the timeout error.
C16_Witness ==
    \E c \in Callers :
        /\ ObservedTimeout(c)
        /\ calls[c].req > 1
        /\ wk[calls[c].waitsOn].state = "terminated"
        /\ reqs[calls[c].waitsOn][calls[c].req].type = RequestType(calls[c].kind)
        /\ reqs[calls[c].waitsOn][calls[c].req].err = TimeoutError

\* ------------------------------------------------------------------------
\* Calls issued by runAgentLibrarian (checked under Spec)
\* ------------------------------------------------------------------------
NormalizationCalls ==
    {i \in 1..Len(oracleLog) : oracleLog[i].stage = "normalization"}
Dispatched ==
    /\ libPc \notin {"idle", "awaitInit"}
    /\ ret["librarian"] # Rejected("init_error")
Validated(k) == shardPc[k] # "oracle" /\ shardErr[k] \notin {"oracle_error", "validation_error"}
ClassifyCallsOf(k) == {i \in 1..Len(classifyLog) : classifyLog[i].shard = k}
RawCount == Len(ret["extractor"].value)

IsZeroVector(v) == Len(v) > 0 /\ \A i \in 1..Len(v) : v[i] = 0

\* C18: called on two vectors of the same dimension of which one is the zero
\* vector, every cosineSimilarity routine returns 0: it does not throw and
\* does not return NaN.
C18_ZeroVectorGivesZero ==
    (/\ fnPc = "done"
     /\ fnIn.fn \in {"cosineSimilarity", "workerCosineSimilarity"}
     /\ Len(fnIn.a) = Len(fnIn.b)
     /\ IsZeroVector(fnIn.a) \/ IsZeroVector(fnIn.b)) =>
        /\ ~fnOut.threw
        /\ ~fnOut.value.nan
        /\ fnOut.value.num = 0

\* ------------------------------------------------------------------------
\* Request-response correlation (checked under SpecClient)
\* ------------------------------------------------------------------------
\* The client's message handler of instance g takes a message in this step.
HandlesMessage(g) ==
    /\ inst[g].worker
    /\ inst'[g].worker
    /\ Len(toClient'[g]) = Len(toClient[g]) - 1
OthersUntouched(g, x) ==
    /\ \A h \in Instances :
          /\ Len(reqs'[h]) = Len(reqs[h])
          /\ h # g => inst'[h].pending = inst[h].pending
          /\ \A n \in 1..Len(reqs[h]) :
                (h # g \/ n # x) => reqs'[h][n] = reqs[h][n]

\* C19: a response with id x settles the pending request x of its instance
\* with the payload of the response (rejected when the type is ERROR,
\* resolved otherwise) and removes its entry, and with it its timer; every
\* other request and entry is left as it was; a response whose id is not
\* pending changes nothing.
C19_ResponseSettlesItsRequest ==
    [][\A g \in Instances :
          (HandlesMessage(g) /\ Head(toClient[g]).type \notin {"READY", "error"}) =>
              LET msg == Head(toClient[g])
                  x == msg.id
              IN  IF x \in inst[g].pending
                  THEN /\ inst'[g].pending = inst[g].pending \ {x}
                       /\ reqs[g][x].state = "pending"
                       /\ IF msg.type = "ERROR"
                          THEN /\ reqs'[g][x].state = "rejected"
                               /\ reqs'[g][x].err = msg.payload.message
                          ELSE /\ reqs'[g][x].state = "resolved"
                               /\ reqs'[g][x].value = msg.payload
                       /\ OthersUntouched(g, x)
                  ELSE /\ inst'[g].pending = inst[g].pending
                       /\ OthersUntouched(g, 0)]_vars

\* Witness of C19: of two classification requests waiting on one instance,
\* the one sent later was answered first and is settled while the one sent
\* earlier is still pending.
C19_Witness ==
    \E g \in Instances :
        /\ Len(reqs[g]) = 3
        /\ reqs[g][2].state = "pending"
        /\ 2 \in inst[g].pending
        /\ reqs[g][3].state \in {"resolved", "rejected"}
        /\ reqs[g][3].err # TimeoutError
        /\ 3 \notin inst[g].pending

\* The message posted to the worker of g in this step.
Posted(g) == toWorker'[g][Len(toWorker'[g])]

\* C20: INITIALIZE is posted to a worker only by the step that handles the
\* READY message of that worker; CLASSIFY and CLASSIFY_BATCH are posted only
\* when READY has been handled and the INITIALIZE request, the first of the
\* instance, has been answered.
C20_HandshakeBeforeClassify ==
    [][\A g \in Instances :
          Len(toWorker'[g]) > Len(toWorker[g]) =>
              /\ Posted(g).type = "INITIALIZE" =>
                    /\ HandlesMessage(g)
                    /\ Head(toClient[g]).type = "READY"
                    /\ inst'[g].isReady
                    /\ Posted(g).id = 1
              /\ Posted(g).type \in {"CLASSIFY", "CLASSIFY_BATCH"} =>
                    /\ inst[g].isReady
                    /\ Posted(g).id > 1
                    /\ reqs[g][1].type = "INITIALIZE"
                    /\ reqs[g][1].state = "resolved"
                    /\ 1 \notin inst[g].pending]_vars

\* Witness of C20: a CLASSIFY_BATCH request was sent as the second message
\* of an instance whose INITIALIZE was answered with success.
C20_Witness ==
    \E g \in Instances :
        /\ Len(reqs[g]) >= 2
        /\ reqs[g][1].type = "INITIALIZE"
        /\ reqs[g][1].state = "resolved"
        /\ reqs[g][1].value.success
        /\ reqs[g][2].type = "CLASSIFY_BATCH"
        /\ wk[g].isInitialized

\* ------------------------------------------------------------------------
\* The worker's anchor cache (checked under SpecClient)
\* ------------------------------------------------------------------------
\* C21: in one worker lifetime the anchor cache is written at most once.
C21_AnchorCacheWrittenOnce ==
    \A g \in Instances : wk[g].anchorWrites <= 1

\* ------------------------------------------------------------------------
\* The worker's message handler on one message (checked under SpecFn)
\* ------------------------------------------------------------------------
\* The type is not a case of the switch, or the handling throws: the payload
\* is missing, or a classifyItem call throws.
HandlingFails(in) ==
    \/ in.type \notin KnownTypes
    \/ /\ in.type \in {"CLASSIFY", "CLASSIFY_BATCH"}
       /\ \/ ~in.hasPayload
          \/ \E i \in 1..Len(in.texts) : ~in.ok[i]

\* C22: for a message of an unknown type, and for a message whose handling
\* throws, the handler posts exactly one message: an ERROR with the id of
\* the request, on which the client's response handler rejects the request;
\* for any other message it posts exactly one response, which is not ERROR.
C22_OneErrorWithRequestId ==
    (fnPc = "done" /\ fnIn.fn = "onmessage") =>
        LET posts == fnOut.value
        IN  /\ Len(posts) = 1
            /\ posts[1].id = fnIn.id
            /\ (posts[1].type = "ERROR") = HandlingFails(fnIn)
            /\ HandlingFails(fnIn) =>
                  SettledRequest(NewRequest(fnIn.type, fnIn.texts),
                                 posts[1]).state = "rejected"

\* Witness of C22: a CLASSIFY_BATCH of two items whose second classifyItem
\* call threw first and whose first threw after it: one ERROR was posted.
C22_Witness ==
    /\ fnPc = "done"
    /\ fnIn.fn = "onmessage"
    /\ fnIn.type = "CLASSIFY_BATCH"
    /\ fnIn.hasPayload
    /\ fnIn.order = <<2, 1>>
    /\ fnIn.ok = <<FALSE, FALSE>>
    /\ Len(fnOut.value) = 1
    /\ fnOut.value[1].type = "ERROR"
    /\ fnOut.value[1].id = fnIn.id

\* ------------------------------------------------------------------------
\* Classification of one embedded text (checked under SpecFn)
\* ------------------------------------------------------------------------
AnchorSim(k) == WorkerCosine(fnIn.itemVector, fnIn.anchors[k].vector)

\* C23: with a non-empty anchor cache the result names an anchor whose
\* similarity to the item's vector no other anchor exceeds, carries that
\* similarity, and among the anchors with that similarity the anchor is the
\* first of the list.
C23_FirstMaximalAnchor ==
    (fnPc = "done" /\ fnIn.fn = "classifyItem" /\ fnIn.anchors # << >>) =>
        \E k \in 1..Len(fnIn.anchors) :
            /\ fnOut.value.subCategory = fnIn.anchors[k].subCategory.name
            /\ fnOut.value.parentCategory = fnIn.anchors[k].subCategory.parent
            /\ fnOut.value.similarity = AnchorSim(k)
            /\ ~AnchorSim(k).nan
            /\ \A j \in 1..Len(fnIn.anchors) : ~SimGT(AnchorSim(j), AnchorSim(k))
            /\ \A j \in 1..(k - 1) : SimGT(AnchorSim(k), AnchorSim(j))

\* No anchor of the cache has a similarity above the initial maxSim of -1.
NoAnchorSelected ==
    \A k \in 1..Len(fnIn.anchors) : ~SimGT(AnchorSim(k), Sim(-1, 1))

\* C24: when no anchor is selected, as with an empty anchor cache, the call
\* returns, with subCategory 'Unknown', parentCategory 'Pantry & Dry Goods'
\* and similarity 0.
C24_FallbackWhenNoAnchor ==
    (fnPc = "done" /\ fnIn.fn = "classifyItem" /\ NoAnchorSelected) =>
        /\ ~fnOut.threw
        /\ fnOut.value.subCategory = "Unknown"
        /\ fnOut.value.parentCategory = "Pantry & Dry Goods"
        /\ ~fnOut.value.similarity.nan
        /\ fnOut.value.similarity.num = 0

\* Witness of C24: classifyItem has returned on an empty anchor cache.
C24_Witness ==
    /\ fnPc = "done"
    /\ fnIn.fn = "classifyItem"
    /\ fnIn.anchors = << >>
    /\ fnOut.value.subCategory = "Unknown"

\* ------------------------------------------------------------------------
\* Correlation ids (checked under SpecClient)
\* ------------------------------------------------------------------------
\* C25: the id of every message an instance posts is one more than its
\* counter, which never decreases, so it is greater than every id the
\* instance issued before and is not the id of a pending entry; the pending
\* entries are ids that were issued.
C25_FreshIncreasingIds ==
    [][\A g \in Instances :
          /\ inst'[g].messageId >= inst[g].messageId
          /\ inst'[g].pending \subseteq 1..inst'[g].messageId
          /\ Len(toWorker'[g]) > Len(toWorker[g]) =>
                /\ Posted(g).id = inst[g].messageId + 1
                /\ inst'[g].messageId = Posted(g).id
                /\ \A n \in 1..Len(reqs[g]) : n < Posted(g).id
                /\ Len(reqs'[g]) = Posted(g).id
                /\ Posted(g).id \notin inst[g].pending
                /\ inst'[g].pending = inst[g].pending \cup {Posted(g).id}]_vars

\* Witness of C25: one instance has issued three ids, two of them are still
\* pending.
C25_Witness ==
    \E g \in Instances :
        /\ inst[g].messageId = 3
        /\ Len(reqs[g]) = 3
        /\ inst[g].pending = {2, 3}

\* C26: called on two vectors of different lengths, every cosineSimilarity
\* routine fails with an error and returns no number.
C26_LengthMismatchFails ==
    (/\ fnPc = "done"
     /\ fnIn.fn \in {"cosineSimilarity", "workerCosineSimilarity"}
     /\ Len(fnIn.a) # Len(fnIn.b)) => fnOut.threw

\* C27: with every armed timer firing and no terminateClassifier(), each
\* classifyItem / classifyBatch call that was issued is eventually resolved or
\* rejected.
Settled(c) == calls[c].pc \in {"resolved", "rejected"}
ClassifyIssued(c) ==
    /\ calls[c].kind \in {"classifyItem", "classifyBatch"}
    /\ calls[c].pc # "idle"
NeverTerminated == [](terminations = 0)
C27_EveryCallSettles ==
    NeverTerminated => \A c \in Callers : ClassifyIssued(c) ~> Settled(c)

\* C28: a request is settled at most once: once resolved or rejected it never
\* changes again, so a response that arrives after the timeout is ignored
\* and a request answered first is never rejected by its timer, which the
\* response cancels.  The pending map holds exactly the ids of the requests
\* sent and neither answered nor timed out.
Unsettled(g) == {n \in 1..Len(reqs[g]) : reqs[g][n].state = "pending"}
C28_SettledAtMostOnce ==
    [][\A g \in Instances :
          /\ \A n \in 1..Len(reqs[g]) :
                reqs[g][n].state # "pending" => reqs'[g][n] = reqs[g][n]
          /\ inst'[g].pending = {n \in 1..Len(reqs'[g]) :
                                    reqs'[g][n].state = "pending"}
          /\ inst'[g].timers = inst'[g].pending
          /\ (HandlesMessage(g) /\ Head(toClient[g]).id \in
                  (1..Len(reqs[g])) \ Unsettled(g)) =>
                /\ reqs'[g] = reqs[g]
                /\ inst'[g] = inst[g]]_vars
\* One request timed out and its late response was consumed, another was
\* answered before its timer fired.
C28_Witness ==
    \E g \in Instances :
        /\ inst[g].worker
        /\ Len(reqs[g]) = 3
        /\ reqs[g][2].state = "rejected"
        /\ reqs[g][2].err = TimeoutError
        /\ reqs[g][3].state = "resolved"
        /\ inst[g].timers = {}
        /\ toWorker[g] = << >>
        /\ tasks[g] = {}
        /\ toClient[g] = << >>

\* C29: createShards returns for every finite list and every integer
\* shardSize, zero and negative sizes included.  The loop has a constant
\* stride, so it returns exactly when every iteration it runs moves the index
\* strictly towards the end of the list; an iteration that does not leaves
\* the loop condition true for ever.
C29_CreateShardsTerminates ==
    [][Len(shShards') > Len(shShards) => shI' > shI]_vars

\* C30: in the result of a successful analyzeGroceryAds every item of the
\* master inventory appears in exactly one group of categorizedDeals, the
\* group named by its category; no group is empty, the groups follow the
\* order of PARENT_CATEGORIES, and their items add up to the inventory.
Occurrences(items, x) == Cardinality({i \in 1..Len(items) : items[i] = x})
CategoryIndex(cat) ==
    CHOOSE c \in 1..Len(PARENT_CATEGORIES) : PARENT_CATEGORIES[c] = cat
RECURSIVE TotalItems(_)
TotalItems(groups) ==
    IF groups = << >> THEN 0
    ELSE Len(Head(groups).items) + TotalItems(Tail(groups))
C30_EveryItemInItsGroup ==
    result.set =>
        LET inventory == ret["librarian"].value
            groups == result.categorizedDeals
        IN  /\ \A k \in 1..Len(groups) :
                  /\ groups[k].items # << >>
                  /\ groups[k].category \in ParentSet
                  /\ \A j \in 1..Len(groups[k].items) :
                        groups[k].items[j].category = groups[k].category
                  /\ \A l \in 1..Len(groups) :
                        k < l => CategoryIndex(groups[k].category)
                                    < CategoryIndex(groups[l].category)
            /\ \A i \in 1..Len(inventory) :
                  \E k \in 1..Len(groups) :
                      /\ groups[k].category = inventory[i].category
                      /\ Occurrences(groups[k].items, inventory[i])
                            = Occurrences(inventory, inventory[i])
            /\ TotalItems(groups) = Len(inventory)
\* A result whose inventory fills two groups.
C30_Witness ==
    /\ result.set
    /\ Len(ret["librarian"].value) >= 2
    /\ Len(result.categorizedDeals) = 2
====
